---- MODULE Spec2Model ----
(***************************************************************************)
(* Local-Drive-X: the two file-manager screens of the React client         *)
(* (FileManagementPage.tsx, EnhancedFileManager.tsx), its setup form       *)
(* (LinkGeneratorForm.tsx) and the folder-scoped storage gateway they      *)
(* call.                                                                   *)
(*                                                                         *)
(* A string is a sequence of tokens: "/" is a token of its own and every   *)
(* other token is a piece of text that holds no "/".  A JavaScript handler *)
(* runs to its next await without interleaving, so one action is one such  *)
(* run: the part of a handler before a fetch, or the part that resumes     *)
(* when the fetch settles.                                                 *)
(***************************************************************************)
EXTENDS Integers, Sequences, FiniteSets, Bags, TLC

VARIABLES
  component,        \* which screen App mounts on /files
  requests,         \* the fetches in flight, a bag of requests
  clicks,           \* user actions taken so far
  \* FileManagementPage state (useState)
  password, authenticated, items, currentPath, breadcrumbs, storage,
  message, loading, selectedItem, previewOpen,
  batches,          \* the running invocations of onDrop / handleFileSelect
  \* EnhancedFileManager state (useState)
  efmPassword, efmAuthenticated, files, efmCurrentPath, usedStorage,
  reservedStorage, efmMessage,
  \* the storage gateway
  scenario,         \* what the gateway is given: any request, or uploads at once
  tasks,            \* one task per request
  usedBytes,        \* the Quota Tracker's counter
  usedAtStart,      \* usedBytes when the service started
  store,            \* the bytes of every file the requests wrote, by location
  \* LinkGeneratorForm state (useState)
  form,             \* which LinkGeneratorForm App mounts on /
  activeStep, folderPath, spaceReserved, lgfPassword, retypePassword, error,
  lgfLoading, responseUrl,
  setups,           \* the POST /api/setup requests in flight, a bag
  href              \* window.location.href once the page has left the form

shared  == <<component, requests, clicks>>
fmpVars == <<password, authenticated, items, currentPath, breadcrumbs, storage,
             message, loading, selectedItem, previewOpen, batches>>
efmVars == <<efmPassword, efmAuthenticated, files, efmCurrentPath, usedStorage,
             reservedStorage, efmMessage>>
gwVars  == <<scenario, tasks, usedBytes, usedAtStart, store>>
lgfVars == <<form, activeStep, folderPath, spaceReserved, lgfPassword,
             retypePassword, error, lgfLoading, responseUrl, setups, href>>
vars    == <<shared, fmpVars, efmVars, gwVars, lgfVars>>

----------------------------------------------------------------------------
(* Bounds of the model *)

MaxFiles == 2
MaxBatches == 1
MaxClicks == 3

----------------------------------------------------------------------------
(* Strings *)

Slash == "/"

\* `${a}/${b}`
Concat(a, b) == a \o <<Slash>> \o b

\* s.split('/'): the pieces between the "/" tokens, empty pieces included
RECURSIVE SplitFrom(_, _, _)
SplitFrom(s, i, piece) ==
  IF i > Len(s) THEN <<piece>>
  ELSE IF s[i] = Slash THEN <<piece>> \o SplitFrom(s, i + 1, <<>>)
  ELSE SplitFrom(s, i + 1, Append(piece, s[i]))

Split(s) == SplitFrom(s, 1, <<>>)

\* .filter(Boolean): the empty string is falsy
FilterBoolean(pieces) == SelectSeq(pieces, LAMBDA p : p # <<>>)

\* pieces.join('/')
RECURSIVE JoinSlash(_)
JoinSlash(pieces) ==
  IF pieces = <<>> THEN <<>>
  ELSE IF Len(pieces) = 1 THEN pieces[1]
  ELSE pieces[1] \o <<Slash>> \o JoinSlash(Tail(pieces))

\* encodeURIComponent / URLSearchParams: "/" travels as %2F
EncodeURIComponent(s) == [i \in DOMAIN s |-> IF s[i] = Slash THEN "%2F" ELSE s[i]]

\* the server's decoding of a query parameter or path parameter
DecodeURIComponent(s) == [i \in DOMAIN s |-> IF s[i] = "%2F" THEN Slash ELSE s[i]]

\* 'Basic ' + btoa(`${pwd}:${pwd}`): the user name and the password of the header
BasicAuth(pwd) == <<pwd, pwd>>

NoAuth == <<>>

----------------------------------------------------------------------------
(* The share the client talks to *)

Secret == "s3cret"

Passwords == {"", Secret, "wrong"}

DirPaths == { <<>>, <<"docs">>, <<"docs", Slash, "img">> }

ChildPath(dir, name) == IF dir = <<>> THEN <<name>> ELSE Concat(dir, <<name>>)

FileItem(dir, name, isDir, type) ==
  [name |-> name, path |-> ChildPath(dir, name), is_dir |-> isDir, type |-> type]

\* the immediate children of a directory of the share, in no order
Children(dir) ==
  IF dir = <<>> THEN
    { FileItem(dir, "N.txt", FALSE, "text"),
      FileItem(dir, "a.png", FALSE, "image"),
      FileItem(dir, "docs", TRUE, "folder") }
  ELSE IF dir = <<"docs">> THEN
    { FileItem(dir, "z.bin", FALSE, "other"),
      FileItem(dir, "r.pdf", FALSE, "pdf"),
      FileItem(dir, "img", TRUE, "folder") }
  ELSE
    { FileItem(dir, "v.mp4", FALSE, "video") }

\* a name in lower case
CaseFold(name) == IF name = "N.txt" THEN "n.txt" ELSE name

\* the lower-case names of the share in ascending order
Ascending == <<"a.png", "docs", "img", "n.txt", "r.pdf", "v.mp4", "z.bin">>

Rank(name) == CHOOSE i \in DOMAIN Ascending : Ascending[i] = CaseFold(name)

\* the ordering policy: directories before files, then case-insensitive name
ListsBefore(a, b) ==
  \/ a.is_dir /\ ~b.is_dir
  \/ a.is_dir = b.is_dir /\ Rank(a.name) < Rank(b.name)

RECURSIVE Ordered(_)
\* the entries of a set in the order of the policy
Ordered(entries) ==
  IF entries = {} THEN <<>>
  ELSE LET first == CHOOSE e \in entries : \A x \in entries \ {e} : ListsBefore(e, x)
       IN  <<first>> \o Ordered(entries \ {first})

\* the listing of every directory of the share
Listings == [dir \in DirPaths |-> Ordered(Children(dir))]

\* the entries of a listing of dir, as the share returns them
Entries(dir) == Listings[dir]

\* the breadcrumbs field of a FilesResponse: one crumb per prefix of the path
Crumbs(dir) ==
  LET segs == FilterBoolean(Split(dir))
  IN  [i \in 1..Len(segs) |->
         [name |-> segs[i], path |-> JoinSlash(SubSeq(segs, 1, i))]]

StorageInfo == [used |-> 4, total |-> 10, percent |-> 40]

NoStorage == [used |-> 0, total |-> 0, percent |-> 0]

\* the body of a successful GET /api/files
FilesResponse(dir) ==
  [items |-> Entries(dir), current_path |-> dir, breadcrumbs |-> Crumbs(dir),
   storage |-> StorageInfo]

\* the body of a successful GET /api/files/metadata
FileMeta(dir) ==
  [i \in DOMAIN Entries(dir) |->
     [name |-> Entries(dir)[i].name, isFolder |-> Entries(dir)[i].is_dir]]

MetadataResponse(dir) ==
  [used |-> StorageInfo.used, reserved |-> StorageInfo.total, files |-> FileMeta(dir)]

\* how a fetch can settle: resp.ok, a non-OK status, or a rejected promise.
\* The share answers OK only to its own secret given as user and password.
FilePaths ==
  UNION {{Entries(d)[i].path : i \in {j \in DOMAIN Entries(d) : ~Entries(d)[j].is_dir}}
         : d \in DirPaths}

Outcomes(r) ==
  IF /\ r.auth = BasicAuth(Secret)
     /\ DecodeURIComponent(r.path) \in
          (IF r.endpoint \in {"download", "preview"} THEN FilePaths ELSE DirPaths)
  THEN {"ok", "notok", "neterr"}
  ELSE {"notok", "neterr"}

----------------------------------------------------------------------------
(* Requests *)

\* A request in flight: where it goes (endpoint, hasPath, path), the Authorization
\* header it carries (auth), the directory the screen was showing when it was
\* issued (browsing), and what the code that awaits it closed over (batch,
\* authenticated, currentPath).
Request(endpoint, hasPath, path, auth, browsing, batch, authClosure, pathClosure) ==
  [endpoint |-> endpoint, hasPath |-> hasPath, path |-> path,
   auth |-> auth, browsing |-> browsing, batch |-> batch,
   authenticated |-> authClosure, currentPath |-> pathClosure]

InFlight == BagToSet(requests)

\* n copies of request r
Copies(r, n) == [x \in {r} |-> n]

\* fetch(...): the request is in flight
Fetch(r) == requests' = requests (+) Copies(r, 1)

\* the awaited fetch settles and its request leaves the network
Settle(r) == requests' = requests (-) Copies(r, 1)

\* the awaited fetch settles and the code that resumes sends request q
SettleAndFetch(r, q) == requests' = (requests (-) Copies(r, 1)) (+) Copies(q, 1)

Click == clicks < MaxClicks /\ clicks' = clicks + 1

----------------------------------------------------------------------------
(* FileManagementPage.tsx *)

FMP == component = "FileManagementPage"

Msg(text) == [text |-> text, successCount |-> 0, failCount |-> 0]

\* `${successCount} file(s) uploaded successfully${failCount > 0 ? `, ${failCount} failed` : ''}`
UploadedMsg(s, f) ==
  [text |-> IF f > 0 THEN "file(s) uploaded successfully, failed"
                     ELSE "file(s) uploaded successfully",
   successCount |-> s, failCount |-> f]

NoItem == [name |-> "", path |-> <<>>, is_dir |-> FALSE, type |-> ""]

IdleBatch ==
  [state |-> "idle", n |-> 0, idx |-> 0, successCount |-> 0,
   failCount |-> 0, password |-> "", currentPath |-> <<>>, startPath |-> <<>>,
   attempts |-> <<>>, okResponses |-> 0, refreshes |-> 0]

\* the preview dialog is modal: the page under it takes no input while it is open
PageActive == ~previewOpen

\* the list or grid of items is on screen
ListShown == authenticated /\ ~loading /\ Len(items) > 0

\* fetch(`/api/files?path=${encodeURIComponent(path)}`, {headers: {Authorization}})
\* b is the upload batch whose end made the call, 0 if none did
FilesRequest(pwd, path, authClosure, b) ==
  Request("files", TRUE, EncodeURIComponent(path), BasicAuth(pwd),
          currentPath, b, authClosure, <<>>)

\* fetchFiles up to its await: setLoading(true) and the request.  authClosure is
\* the value of `authenticated` in the render whose handler made the call.
fetchFiles(pwd, path, authClosure) ==
  /\ loading' = TRUE
  /\ Fetch(FilesRequest(pwd, path, authClosure, 0))

\* the login form's password field
setPassword(p) ==
  /\ FMP /\ ~authenticated
  /\ p # password
  /\ password' = p
  /\ UNCHANGED <<shared, authenticated, items, currentPath, breadcrumbs, storage,
                 message, loading, selectedItem, previewOpen, batches, efmVars, gwVars, lgfVars>>

handleLogin ==
  /\ FMP /\ ~authenticated /\ ~loading
  /\ password # ""
  /\ Click
  /\ fetchFiles(password, <<>>, authenticated)
  /\ UNCHANGED <<component, password, authenticated, items, currentPath,
                 breadcrumbs, storage, message, selectedItem, previewOpen,
                 batches, efmVars, gwVars, lgfVars>>

\* the folders of the list (hidden while loading), the crumbs and Home
NavTargets ==
  {<<>>} \cup {breadcrumbs[i].path : i \in DOMAIN breadcrumbs}
         \cup (IF ListShown THEN {items[i].path : i \in {j \in DOMAIN items : items[j].is_dir}}
                             ELSE {})

navigateToFolder(path) ==
  /\ FMP /\ authenticated /\ PageActive
  /\ path \in NavTargets
  /\ Click
  /\ fetchFiles(password, path, authenticated)
  /\ UNCHANGED <<component, password, authenticated, items, currentPath,
                 breadcrumbs, storage, message, selectedItem, previewOpen,
                 batches, efmVars, gwVars, lgfVars>>

\* fetchFiles that adds the items it receives to the ones it holds
fetchFilesSettledAppends(r, outcome) ==
  /\ FMP /\ r \in InFlight /\ r.endpoint = "files"
  /\ outcome \in Outcomes(r)
  /\ Settle(r)
  /\ IF outcome = "ok"
     THEN LET data == FilesResponse(DecodeURIComponent(r.path))
          IN  /\ items' = items \o data.items
              /\ currentPath' = data.current_path
              /\ breadcrumbs' = data.breadcrumbs
              /\ storage' = data.storage
              /\ authenticated' = TRUE
              /\ message' = Msg("")
     ELSE /\ message' = IF ~r.authenticated
                        THEN Msg("Authentication failed. Please check your password.")
                        ELSE Msg("Failed to load files. Please check your connection.")
          /\ UNCHANGED <<items, currentPath, breadcrumbs, storage, authenticated>>
  /\ loading' = FALSE
  /\ UNCHANGED <<component, clicks, password, selectedItem, previewOpen, batches,
                 efmVars, gwVars, lgfVars>>

\* fetchFiles whose catch block empties the list
fetchFilesSettledClearsOnFailure(r, outcome) ==
  /\ FMP /\ r \in InFlight /\ r.endpoint = "files"
  /\ outcome \in Outcomes(r)
  /\ Settle(r)
  /\ IF outcome = "ok"
     THEN LET data == FilesResponse(DecodeURIComponent(r.path))
          IN  /\ items' = data.items
              /\ currentPath' = data.current_path
              /\ breadcrumbs' = data.breadcrumbs
              /\ storage' = data.storage
              /\ authenticated' = TRUE
              /\ message' = Msg("")
     ELSE /\ message' = IF ~r.authenticated
                        THEN Msg("Authentication failed. Please check your password.")
                        ELSE Msg("Failed to load files. Please check your connection.")
          /\ items' = <<>>
          /\ UNCHANGED <<currentPath, breadcrumbs, storage, authenticated>>
  /\ loading' = FALSE
  /\ UNCHANGED <<component, clicks, password, selectedItem, previewOpen, batches,
                 efmVars, gwVars, lgfVars>>

\* fetchFiles without its finally block: setLoading(false) ends the try body
fetchFilesSettledNoFinally(r, outcome) ==
  /\ FMP /\ r \in InFlight /\ r.endpoint = "files"
  /\ outcome \in Outcomes(r)
  /\ Settle(r)
  /\ IF outcome = "ok"
     THEN LET data == FilesResponse(DecodeURIComponent(r.path))
          IN  /\ items' = data.items
              /\ currentPath' = data.current_path
              /\ breadcrumbs' = data.breadcrumbs
              /\ storage' = data.storage
              /\ authenticated' = TRUE
              /\ message' = Msg("")
              /\ loading' = FALSE
     ELSE /\ message' = IF ~r.authenticated
                        THEN Msg("Authentication failed. Please check your password.")
                        ELSE Msg("Failed to load files. Please check your connection.")
          /\ UNCHANGED <<items, currentPath, breadcrumbs, storage, authenticated, loading>>
  /\ UNCHANGED <<component, clicks, password, selectedItem, previewOpen, batches,
                 efmVars, gwVars, lgfVars>>

\* fetchFiles after its await: the try body on an OK response, else the catch
\* block; the finally block either way
fetchFilesSettled(r, outcome) ==
  /\ FMP /\ r \in InFlight /\ r.endpoint = "files"
  /\ outcome \in Outcomes(r)
  /\ Settle(r)
  /\ IF outcome = "ok"
     THEN LET data == FilesResponse(DecodeURIComponent(r.path))
          IN  /\ items' = data.items
              /\ currentPath' = data.current_path
              /\ breadcrumbs' = data.breadcrumbs
              /\ storage' = data.storage
              /\ authenticated' = TRUE
              /\ message' = Msg("")
     ELSE /\ message' = IF ~r.authenticated
                        THEN Msg("Authentication failed. Please check your password.")
                        ELSE Msg("Failed to load files. Please check your connection.")
          /\ UNCHANGED <<items, currentPath, breadcrumbs, storage, authenticated>>
  /\ loading' = FALSE
  /\ UNCHANGED <<component, clicks, password, selectedItem, previewOpen, batches,
                 efmVars, gwVars, lgfVars>>

\* the next free slot for an invocation of onDrop / handleFileSelect
NewBatch == Cardinality({b \in DOMAIN batches : batches[b].state # "idle"}) + 1

\* the request of one pass of the upload loop: POST /api/upload with the file as
\* the body, no path parameter
UploadRequest(b, pwd) ==
  Request("upload", FALSE, <<>>, BasicAuth(pwd), currentPath, b, TRUE, <<>>)

\* an upload handler that sends every file of the batch at once
startBatchAllAtOnce(n) ==
  /\ FMP /\ authenticated /\ PageActive
  /\ n \in 1..MaxFiles
  /\ NewBatch <= MaxBatches
  /\ Click
  /\ loading' = TRUE
  /\ batches' = [batches EXCEPT ![NewBatch] =
       [state |-> "uploading", n |-> n, idx |-> 1,
        successCount |-> 0, failCount |-> 0, password |-> password,
        currentPath |-> currentPath, startPath |-> currentPath,
        attempts |-> [i \in 1..n |-> 1],
        okResponses |-> 0, refreshes |-> 0]]
  /\ requests' = requests (+) Copies(UploadRequest(NewBatch, password), n)
  /\ UNCHANGED <<component, password, authenticated, items, currentPath,
                 breadcrumbs, storage, message, selectedItem, previewOpen, efmVars, gwVars, lgfVars>>

\* onDrop / handleFileSelect up to the first await: setLoading(true), the two
\* counters at 0, and the request for the first file
startBatch(n) ==
  /\ FMP /\ authenticated /\ PageActive
  /\ n \in 1..MaxFiles
  /\ NewBatch <= MaxBatches
  /\ Click
  /\ loading' = TRUE
  /\ batches' = [batches EXCEPT ![NewBatch] =
       [state |-> "uploading", n |-> n, idx |-> 1,
        successCount |-> 0, failCount |-> 0, password |-> password,
        currentPath |-> currentPath, startPath |-> currentPath,
        attempts |-> [i \in 1..n |-> IF i = 1 THEN 1 ELSE 0],
        okResponses |-> 0, refreshes |-> 0]]
  /\ Fetch(UploadRequest(NewBatch, password))
  /\ UNCHANGED <<component, password, authenticated, items, currentPath,
                 breadcrumbs, storage, message, selectedItem, previewOpen, efmVars, gwVars, lgfVars>>

onDrop == \E n \in 1..MaxFiles : startBatch(n)

handleFileSelect == \E n \in 1..MaxFiles : startBatch(n)

\* CountUpload with a catch block that does not count the rejected fetch
CountUploadCatchUncounted(batch, outcome) ==
  [batch EXCEPT !.successCount = IF outcome = "ok" THEN @ + 1 ELSE @,
                !.failCount = IF outcome = "notok" THEN @ + 1 ELSE @]

\* the counters after one upload has settled: successCount++ on resp.ok,
\* failCount++ in the else branch (a non-OK status) and in the catch block (a
\* rejected fetch)
CountUpload(batch, outcome) ==
  [batch EXCEPT !.successCount = IF outcome = "ok" THEN @ + 1 ELSE @,
                !.failCount = IF outcome = "ok" THEN @ ELSE @ + 1]

\* the loop goes on to the next file
MoreFiles(batch) == batch.idx < batch.n

\* one upload of a batch settles: the loop counts it and either sends the next
\* file or leaves the loop, sets the message, starts the refresh and ends with
\* setLoading(false)
uploadSettled(r, outcome) ==
  /\ FMP /\ r \in InFlight /\ r.endpoint = "upload"
  /\ outcome \in Outcomes(r)
  /\ LET b == r.batch
         counted == [CountUpload(batches[b], outcome) EXCEPT
                       !.okResponses = IF outcome = "ok" THEN @ + 1 ELSE @]
     IN  IF MoreFiles(batches[b])
         THEN /\ batches' = [batches EXCEPT ![b] =
                   [counted EXCEPT !.idx = @ + 1,
                                   !.attempts[counted.idx + 1] = @ + 1]]
              /\ SettleAndFetch(r, UploadRequest(b, counted.password))
              /\ UNCHANGED <<message, loading>>
         ELSE IF counted.successCount > 0
         THEN /\ message' = UploadedMsg(counted.successCount, counted.failCount)
              /\ batches' = [batches EXCEPT ![b] =
                   [counted EXCEPT !.state = "done", !.refreshes = @ + 1]]
              /\ SettleAndFetch(r, FilesRequest(counted.password, counted.currentPath, TRUE, b))
              /\ loading' = FALSE
         ELSE /\ message' = Msg("Upload failed")
              /\ batches' = [batches EXCEPT ![b] = [counted EXCEPT !.state = "done"]]
              /\ Settle(r)
              /\ loading' = FALSE
  /\ UNCHANGED <<component, clicks, password, authenticated, items, currentPath,
                 breadcrumbs, storage, selectedItem, previewOpen, efmVars, gwVars, lgfVars>>

\* a list that shows the items last first
renderListViewReversed == [i \in DOMAIN items |-> items[Len(items) + 1 - i]]

\* items.map((item) => <ListItem key={item.path} ...>): one row per item, in the
\* order of the array
renderListView == [i \in DOMAIN items |-> items[i]]

\* items.map((item) => <Card key={item.path} ...>)
renderGridView == [i \in DOMAIN items |-> items[i]]

\* the files of the list that are on screen
ShownFiles ==
  IF ListShown /\ PageActive
  THEN {items[i] : i \in {j \in DOMAIN items : ~items[j].is_dir}}
  ELSE {}

\* the context menu's Download (handleContextMenu selects the item), or the
\* Download button of the preview dialog, which acts on selectedItem
handleDownload(item) ==
  /\ FMP
  /\ \/ item \in ShownFiles
     \/ previewOpen /\ item = selectedItem /\ ~item.is_dir
  /\ Click
  /\ selectedItem' = item
  /\ Fetch(Request("download", TRUE, item.path, BasicAuth(password),
                   currentPath, 0, authenticated, <<>>))
  /\ UNCHANGED <<component, password, authenticated, items, currentPath,
                 breadcrumbs, storage, message, loading, previewOpen, batches,
                 efmVars, gwVars, lgfVars>>

downloadSettled(r, outcome) ==
  /\ FMP /\ r \in InFlight /\ r.endpoint = "download"
  /\ outcome \in Outcomes(r)
  /\ Settle(r)
  /\ message' = IF outcome = "ok" THEN message ELSE Msg("Download failed")
  /\ UNCHANGED <<component, clicks, password, authenticated, items, currentPath,
                 breadcrumbs, storage, loading, selectedItem, previewOpen, batches,
                 efmVars, gwVars, lgfVars>>

\* a dialog that tries to render every file inline
InlineTypesAll == {"image", "pdf", "video", "audio", "text", "other"}

\* the cases of the switch in renderPreviewContent that return an element with
\* a src; the default case shows 'Preview not available' and a Download button
InlineTypes == {"image", "pdf", "video", "audio"}

\* the context menu offers Preview for
\* ['image', 'pdf', 'audio', 'video'].includes(selectedItem.type)
previewMenuOffered(item) ==
  ~item.is_dir /\ item.type \in {"image", "pdf", "audio", "video"}

\* the default case of renderPreviewContent: the dialog holds only the Download
\* button
downloadOnly(item) == item.type \notin InlineTypes

\* the requests the browser makes for the element renderPreviewContent returns:
\* <img>, <iframe>, <video> and <audio> load their src with a plain GET
renderPreviewContent(item) ==
  IF item.type \in InlineTypes
  THEN Fetch(Request("preview", TRUE, item.path, NoAuth, currentPath, 0,
                     authenticated, <<>>))
  ELSE UNCHANGED requests

\* a click on a file of the list (or the context menu's Preview) opens the
\* dialog, whose content is rendered at once
handlePreview(item) ==
  /\ FMP
  /\ item \in ShownFiles
  /\ Click
  /\ selectedItem' = item
  /\ previewOpen' = TRUE
  /\ renderPreviewContent(item)
  /\ UNCHANGED <<component, password, authenticated, items, currentPath,
                 breadcrumbs, storage, message, loading, batches, efmVars, gwVars, lgfVars>>

\* the dialog's Close button / onClose
closePreview ==
  /\ FMP /\ previewOpen
  /\ previewOpen' = FALSE
  /\ UNCHANGED <<shared, password, authenticated, items, currentPath, breadcrumbs,
                 storage, message, loading, selectedItem, batches, efmVars, gwVars, lgfVars>>

\* the element's load or error event: no handler of the page is attached to it
previewSettled(r, outcome) ==
  /\ FMP /\ r \in InFlight /\ r.endpoint = "preview"
  /\ outcome \in Outcomes(r)
  /\ Settle(r)
  /\ UNCHANGED <<component, clicks, fmpVars, efmVars, gwVars, lgfVars>>

----------------------------------------------------------------------------
(* EnhancedFileManager.tsx *)

EFM == component = "EnhancedFileManager"

\* fetch(`/api/files/metadata?${params}`, {headers: authHeader}); the path
\* parameter is set only for a non-empty path
MetadataRequest(pwd, path, browsing) ==
  Request("metadata", path # <<>>, EncodeURIComponent(path),
          BasicAuth(pwd), browsing, 0, efmAuthenticated, <<>>)

\* the password field of the login form
efmSetPassword(p) ==
  /\ EFM /\ ~efmAuthenticated
  /\ p # efmPassword
  /\ efmPassword' = p
  /\ UNCHANGED <<shared, fmpVars, gwVars, lgfVars, efmAuthenticated, files, efmCurrentPath,
                 usedStorage, reservedStorage, efmMessage>>

efmHandleLogin ==
  /\ EFM /\ ~efmAuthenticated
  /\ efmPassword # ""
  /\ Click
  /\ Fetch(MetadataRequest(efmPassword, <<>>, efmCurrentPath))
  /\ UNCHANGED <<component, fmpVars, efmVars, gwVars, lgfVars>>

\* useEffect on [currentPath]: after a render in which currentPath changed, the
\* listing of the new path is fetched if the screen is authenticated
useEffectCurrentPath(newPath) ==
  IF newPath # efmCurrentPath /\ efmAuthenticated
  THEN Fetch(MetadataRequest(efmPassword, newPath, newPath))
  ELSE UNCHANGED requests

FolderNames == {files[i].name : i \in {j \in DOMAIN files : files[j].isFolder}}

handleFolderClick(folderName) ==
  /\ EFM /\ efmAuthenticated
  /\ folderName \in FolderNames
  /\ Click
  /\ LET newPath == IF efmCurrentPath # <<>>
                    THEN Concat(efmCurrentPath, <<folderName>>)
                    ELSE <<folderName>>
     IN  /\ efmCurrentPath' = newPath
         /\ useEffectCurrentPath(newPath)
  /\ UNCHANGED <<component, fmpVars, gwVars, lgfVars, efmPassword, efmAuthenticated, files,
                 usedStorage, reservedStorage, efmMessage>>

\* the trail without .filter(Boolean)
efmBreadcrumbsUnfiltered == <<<<"Home">>>> \o Split(efmCurrentPath)

\* Home and breadcrumbs.map((crumb) => <Link ...>{crumb.name}</Link>)
shownBreadcrumbs ==
  <<<<"Home">>>> \o [i \in DOMAIN breadcrumbs |-> breadcrumbs[i].name]

\* ['Home', ...currentPath.split('/').filter(Boolean)]
efmBreadcrumbs == <<<<"Home">>>> \o FilterBoolean(Split(efmCurrentPath))

\* a slice that keeps the segment of the crumb after the one clicked
BreadcrumbTargetOneDeeper(path, index) ==
  JoinSlash(SubSeq(FilterBoolean(Split(path)), 1, index + 1))

\* segments.slice(0, index).join('/')
BreadcrumbTarget(path, index) ==
  JoinSlash(SubSeq(FilterBoolean(Split(path)), 1, index))

\* the crumb buttons are indexed from 0; the last one is disabled
navigateBreadcrumb(index) ==
  /\ EFM /\ efmAuthenticated
  /\ index \in 0..(Len(efmBreadcrumbs) - 2)
  /\ Click
  /\ efmCurrentPath' = BreadcrumbTarget(efmCurrentPath, index)
  /\ useEffectCurrentPath(BreadcrumbTarget(efmCurrentPath, index))
  /\ UNCHANGED <<component, fmpVars, gwVars, lgfVars, efmPassword, efmAuthenticated, files,
                 usedStorage, reservedStorage, efmMessage>>

\* fetchMetadata with a catch block that leaves `authenticated` as it is
fetchMetadataSettledStaysLoggedIn(r, outcome) ==
  /\ EFM /\ r \in InFlight /\ r.endpoint = "metadata"
  /\ outcome \in Outcomes(r)
  /\ Settle(r)
  /\ IF outcome = "ok"
     THEN LET data == MetadataResponse(DecodeURIComponent(r.path))
          IN  /\ files' = data.files
              /\ usedStorage' = data.used
              /\ reservedStorage' = data.reserved
              /\ efmAuthenticated' = TRUE
              /\ UNCHANGED efmMessage
     ELSE /\ efmMessage' = "Failed to fetch files. Check credentials."
          /\ UNCHANGED <<efmAuthenticated, files, usedStorage, reservedStorage>>
  /\ UNCHANGED <<component, clicks, fmpVars, gwVars, lgfVars, efmPassword, efmCurrentPath>>

\* fetchMetadata after its await
fetchMetadataSettled(r, outcome) ==
  /\ EFM /\ r \in InFlight /\ r.endpoint = "metadata"
  /\ outcome \in Outcomes(r)
  /\ Settle(r)
  /\ IF outcome = "ok"
     THEN LET data == MetadataResponse(DecodeURIComponent(r.path))
          IN  /\ files' = data.files
              /\ usedStorage' = data.used
              /\ reservedStorage' = data.reserved
              /\ efmAuthenticated' = TRUE
              /\ UNCHANGED efmMessage
     ELSE /\ efmMessage' = "Failed to fetch files. Check credentials."
          /\ efmAuthenticated' = FALSE
          /\ UNCHANGED <<files, usedStorage, reservedStorage>>
  /\ UNCHANGED <<component, clicks, fmpVars, gwVars, lgfVars, efmPassword, efmCurrentPath>>

\* acceptedFiles.forEach(async file => ...): every file's request is sent before
\* any of them settles; pathParam is absent at the root
efmUploadRequest ==
  Request("upload", efmCurrentPath # <<>>, EncodeURIComponent(efmCurrentPath),
          BasicAuth(efmPassword), efmCurrentPath, 0, efmAuthenticated,
          efmCurrentPath)

efmOnDrop(n) ==
  /\ EFM /\ efmAuthenticated
  /\ n \in 1..MaxFiles
  /\ Click
  /\ requests' = requests (+) Copies(efmUploadRequest, n)
  /\ UNCHANGED <<component, fmpVars, efmVars, gwVars, lgfVars>>

\* an onDrop that sends a failed upload again
efmUploadSettledRetries(r, outcome) ==
  /\ EFM /\ r \in InFlight /\ r.endpoint = "upload"
  /\ outcome \in Outcomes(r)
  /\ IF outcome = "ok"
     THEN /\ SettleAndFetch(r, MetadataRequest(r.auth[1], r.currentPath, efmCurrentPath))
          /\ UNCHANGED efmMessage
     ELSE /\ SettleAndFetch(r, r)
          /\ efmMessage' = "Upload failed"
  /\ UNCHANGED <<component, clicks, fmpVars, gwVars, lgfVars, efmPassword, efmAuthenticated, files,
                 efmCurrentPath, usedStorage, reservedStorage>>

\* one upload settles: fetchMetadata(currentPath) with the values the callback
\* closed over, or the message
efmUploadSettled(r, outcome) ==
  /\ EFM /\ r \in InFlight /\ r.endpoint = "upload"
  /\ outcome \in Outcomes(r)
  /\ IF outcome = "ok"
     THEN /\ SettleAndFetch(r, MetadataRequest(r.auth[1], r.currentPath, efmCurrentPath))
          /\ UNCHANGED efmMessage
     ELSE /\ Settle(r)
          /\ efmMessage' = "Upload failed"
  /\ UNCHANGED <<component, clicks, fmpVars, gwVars, lgfVars, efmPassword, efmAuthenticated, files,
                 efmCurrentPath, usedStorage, reservedStorage>>

\* files.map((file) => <tr key={file.name} ...>): the rows of the file table
fileTable == [i \in DOMAIN files |-> files[i]]

FileNames == {files[i].name : i \in {j \in DOMAIN files : ~files[j].isFolder}}

efmHandleDownload(fileName) ==
  /\ EFM /\ efmAuthenticated
  /\ fileName \in FileNames
  /\ Click
  /\ LET pathParam == IF efmCurrentPath # <<>>
                      THEN Concat(efmCurrentPath, <<fileName>>)
                      ELSE <<fileName>>
     IN  Fetch(Request("download", TRUE, EncodeURIComponent(pathParam),
                       BasicAuth(efmPassword), efmCurrentPath, 0, efmAuthenticated,
                       <<>>))
  /\ UNCHANGED <<component, fmpVars, efmVars, gwVars, lgfVars>>

efmDownloadSettled(r, outcome) ==
  /\ EFM /\ r \in InFlight /\ r.endpoint = "download"
  /\ outcome \in Outcomes(r)
  /\ Settle(r)
  /\ efmMessage' = IF outcome = "ok" THEN efmMessage ELSE "Download failed"
  /\ UNCHANGED <<component, clicks, fmpVars, gwVars, lgfVars, efmPassword, efmAuthenticated, files,
                 efmCurrentPath, usedStorage, reservedStorage>>

----------------------------------------------------------------------------
(* LinkGeneratorForm.tsx: the setup wizard, and the plain form it replaced *)

MaxSetups == 2

Backslash == "\\"

Wizard == form = "LinkGeneratorForm.tsx" /\ href = <<>>

PlainForm == form = "part_000" /\ href = <<>>

\* what the user types or pastes into the folder field
FolderInputs ==
  {<<>>, <<"C:", Backslash, "temp">>, <<"C:", "temp">>, <<"temp">>,
   <<Slash, "srv">>}

\* the buttons Temp Folder, Public Folder and C:\new
FolderPresets ==
  {<<"C:", Backslash, "temp">>, <<"C:", Backslash, "Users", Backslash, "Public">>,
   <<"C:", Backslash, "new">>}

\* what the number field can hold
SpaceInputs == {"", "0", "-1", "6"}

SetupPasswords == {"", "pw", "other"}

\* parseFloat / Number of the value of the number field; Number('') is 0
NumberOf(text) ==
  CASE text = "6" -> 6
    [] text = "-1" -> 0 - 1
    [] OTHER -> 0

\* !spaceReserved || parseFloat(spaceReserved) <= 0
InvalidSpace(text) == text = "" \/ NumberOf(text) <= 0

DriveLetters == {"C:"}

\* folderPath.match(/^[a-zA-Z]:\\/) || folderPath.startsWith('/')
AbsolutePath(path) ==
  \/ Len(path) >= 2 /\ path[1] \in DriveLetters /\ path[2] = Backslash
  \/ Len(path) >= 1 /\ path[1] = Slash

\* a path sent as the user entered it
AsEntered(path) == path

\* normalizedPath.replace(/\\/g, '\\\\'): every backslash becomes two
RECURSIVE DoubleBackslashes(_)
DoubleBackslashes(path) ==
  IF path = <<>> THEN <<>>
  ELSE (IF Head(path) = Backslash THEN <<Backslash, Backslash>> ELSE <<Head(path)>>)
       \o DoubleBackslashes(Tail(path))

\* the text of a string inside JSON.stringify's output: a backslash is written
\* as the escape of two
RECURSIVE JSONStringify(_)
JSONStringify(text) ==
  IF text = <<>> THEN <<>>
  ELSE (IF Head(text) = Backslash THEN <<Backslash, Backslash>> ELSE <<Head(text)>>)
       \o JSONStringify(Tail(text))

\* the server's JSON decoding of that text: an escape of two backslashes is one
RECURSIVE JSONParse(_)
JSONParse(text) ==
  IF text = <<>> THEN <<>>
  ELSE IF Head(text) = Backslash /\ Len(text) >= 2 /\ text[2] = Backslash
  THEN <<Backslash>> \o JSONParse(Tail(Tail(text)))
  ELSE <<Head(text)>> \o JSONParse(Tail(text))

\* body: JSON.stringify({folder, space: Number(spaceReserved), password})
SetupRequest(folder) ==
  [folder |-> JSONStringify(folder), space |-> NumberOf(spaceReserved),
   password |-> lgfPassword]

SetupsInFlight == BagCardinality(setups)

PublicUrl == <<"https:", Slash, Slash, "share.loca.lt">>

\* the bodies /api/setup or a proxy in front of it can answer with: {url}, an
\* object without a url, {detail}, null, an HTML error page, other text
SetupBodies ==
  {[kind |-> "json", url |-> PublicUrl, detail |-> "", text |-> ""],
   [kind |-> "json", url |-> <<>>, detail |-> "", text |-> ""],
   [kind |-> "json", url |-> <<>>, detail |-> "Folder does not exist", text |-> ""],
   [kind |-> "null", url |-> <<>>, detail |-> "", text |-> ""],
   [kind |-> "html", url |-> <<>>, detail |-> "", text |-> "ENOENT"],
   [kind |-> "html", url |-> <<>>, detail |-> "", text |-> "permission denied"],
   [kind |-> "html", url |-> <<>>, detail |-> "", text |-> ""],
   [kind |-> "text", url |-> <<>>, detail |-> "", text |-> ""]}

\* how the fetch settles: a response with a status and a body, or a rejection
SetupResponses ==
  [rejected : {FALSE}, ok : BOOLEAN, body : SetupBodies]
  \cup {[rejected |-> TRUE, ok |-> FALSE,
         body |-> [kind |-> "text", url |-> <<>>, detail |-> "", text |-> ""]]}

handleFolderChange(v) ==
  /\ (Wizard /\ activeStep = 0) \/ PlainForm
  /\ v \in FolderInputs /\ v # folderPath
  /\ folderPath' = v
  /\ UNCHANGED <<form, activeStep, spaceReserved, lgfPassword, retypePassword,
                 error, lgfLoading, responseUrl, setups, href>>
  /\ UNCHANGED <<shared, fmpVars, efmVars, gwVars>>

\* onClick={() => setFolderPath('C:\\temp')} and the two buttons beside it
presetFolder(v) ==
  /\ Wizard /\ activeStep = 0
  /\ v \in FolderPresets /\ v # folderPath
  /\ folderPath' = v
  /\ UNCHANGED <<form, activeStep, spaceReserved, lgfPassword, retypePassword,
                 error, lgfLoading, responseUrl, setups, href>>
  /\ UNCHANGED <<shared, fmpVars, efmVars, gwVars>>

setSpaceReserved(v) ==
  /\ (Wizard /\ activeStep = 1) \/ PlainForm
  /\ v \in SpaceInputs /\ v # spaceReserved
  /\ spaceReserved' = v
  /\ UNCHANGED <<form, activeStep, folderPath, lgfPassword, retypePassword,
                 error, lgfLoading, responseUrl, setups, href>>
  /\ UNCHANGED <<shared, fmpVars, efmVars, gwVars>>

lgfSetPassword(v) ==
  /\ (Wizard /\ activeStep = 2) \/ PlainForm
  /\ v \in SetupPasswords /\ v # lgfPassword
  /\ lgfPassword' = v
  /\ UNCHANGED <<form, activeStep, folderPath, spaceReserved, retypePassword,
                 error, lgfLoading, responseUrl, setups, href>>
  /\ UNCHANGED <<shared, fmpVars, efmVars, gwVars>>

setRetypePassword(v) ==
  /\ (Wizard /\ activeStep = 2) \/ PlainForm
  /\ v \in SetupPasswords /\ v # retypePassword
  /\ retypePassword' = v
  /\ UNCHANGED <<form, activeStep, folderPath, spaceReserved, lgfPassword,
                 error, lgfLoading, responseUrl, setups, href>>
  /\ UNCHANGED <<shared, fmpVars, efmVars, gwVars>>

\* "Normalize path": if (normalizedPath.includes('\\')) replace(/\\/g, '\\\\')
Normalize(path) == DoubleBackslashes(path)

\* a wizard that submits whatever the folder field holds
AnyPath(path) == TRUE

\* the check that opens the try block of handleSubmit
ValidAbsolutePath(path) == AbsolutePath(path)

\* handleSubmit up to its await: setLoading(true), setError(''), then either
\* the throw that the catch and finally blocks handle at once, or the request
handleSubmit ==
  IF ~ValidAbsolutePath(folderPath)
  THEN /\ error' = "Please enter a valid absolute path (e.g., C:\\Folder or /home/user/folder)"
       /\ lgfLoading' = FALSE
       /\ UNCHANGED setups
  ELSE /\ error' = ""
       /\ lgfLoading' = TRUE
       /\ setups' = setups (+) Copies(SetupRequest(Normalize(folderPath)), 1)

\* a wizard whose Next button stays enabled while a submission is pending
NextEnabledAlways == activeStep # 3

\* the Next / Generate Link button: shown before step 3, disabled={loading}
NextEnabled == activeStep # 3 /\ ~lgfLoading

\* a wizard whose first step accepts an empty folder
AcceptsAnyFolder(path) == FALSE

\* activeStep === 0 && !folderPath
MissingFolder(path) == path = <<>>

handleNext ==
  /\ Wizard /\ NextEnabled
  /\ IF activeStep = 0 /\ MissingFolder(folderPath)
     THEN /\ error' = "Please enter a folder path"
          /\ UNCHANGED <<activeStep, lgfLoading, setups>>
     ELSE IF activeStep = 1 /\ InvalidSpace(spaceReserved)
     THEN /\ error' = "Please enter a valid space value"
          /\ UNCHANGED <<activeStep, lgfLoading, setups>>
     ELSE IF activeStep = 2 /\ lgfPassword = ""
     THEN /\ error' = "Please enter a password"
          /\ UNCHANGED <<activeStep, lgfLoading, setups>>
     ELSE IF activeStep = 2 /\ lgfPassword # retypePassword
     THEN /\ error' = "Passwords do not match"
          /\ UNCHANGED <<activeStep, lgfLoading, setups>>
     ELSE IF activeStep = 2
     THEN /\ handleSubmit
          /\ UNCHANGED activeStep
     ELSE /\ error' = ""
          /\ activeStep' = activeStep + 1
          /\ UNCHANGED <<lgfLoading, setups>>
  /\ UNCHANGED <<form, folderPath, spaceReserved, lgfPassword, retypePassword,
                 responseUrl, href>>
  /\ UNCHANGED <<shared, fmpVars, efmVars, gwVars>>

\* the Back button: disabled={activeStep === 0 || activeStep === 3 || loading}
handleBack ==
  /\ Wizard /\ activeStep \notin {0, 3} /\ ~lgfLoading
  /\ activeStep' = activeStep - 1
  /\ error' = ""
  /\ UNCHANGED <<form, folderPath, spaceReserved, lgfPassword, retypePassword,
                 lgfLoading, responseUrl, setups, href>>
  /\ UNCHANGED <<shared, fmpVars, efmVars, gwVars>>

\* the message of the error that handleSubmit throws for a response, "" if it
\* throws none
SetupError(resp) ==
  IF resp.rejected THEN "Failed to fetch"
  ELSE IF resp.body.kind = "html"
  THEN (IF resp.body.text = "ENOENT"
        THEN "Folder not found. Please check if the path exists and is accessible."
        ELSE IF resp.body.text = "permission denied"
        THEN "Permission denied. Please check folder permissions."
        ELSE "Server error. Please check if the folder path exists and is accessible.")
  ELSE IF resp.body.kind = "text" THEN "Invalid response format"
  ELSE IF resp.body.kind = "null" THEN "Cannot read properties of null"
  ELSE IF ~resp.ok
  THEN (IF resp.body.detail # "" THEN resp.body.detail ELSE "API error")
  ELSE IF resp.body.url = <<>> THEN "Invalid response: missing URL"
  ELSE ""

\* a wizard that shows the last step whatever the response was
handleSubmitSettledAlwaysReady(r, resp) ==
  /\ Wizard /\ r \in BagToSet(setups)
  /\ resp \in SetupResponses
  /\ setups' = setups (-) Copies(r, 1)
  /\ responseUrl' = resp.body.url \o <<Slash, "files">>
  /\ activeStep' = 3
  /\ UNCHANGED error
  /\ lgfLoading' = FALSE
  /\ UNCHANGED <<form, folderPath, spaceReserved, lgfPassword, retypePassword, href>>
  /\ UNCHANGED <<shared, fmpVars, efmVars, gwVars>>

\* handleSubmit after its await: the rest of the try block, or the catch block,
\* and the finally block
handleSubmitSettled(r, resp) ==
  /\ Wizard /\ r \in BagToSet(setups)
  /\ resp \in SetupResponses
  /\ setups' = setups (-) Copies(r, 1)
  /\ IF SetupError(resp) = ""
     THEN /\ responseUrl' = resp.body.url \o <<Slash, "files">>
          /\ activeStep' = 3
          /\ UNCHANGED error
     ELSE /\ error' = SetupError(resp)
          /\ UNCHANGED <<responseUrl, activeStep>>
  /\ lgfLoading' = FALSE
  /\ UNCHANGED <<form, folderPath, spaceReserved, lgfPassword, retypePassword, href>>
  /\ UNCHANGED <<shared, fmpVars, efmVars, gwVars>>

\* the Open Drive button of the last step: window.location.href = responseUrl
openLink ==
  /\ Wizard /\ activeStep = 3
  /\ href' = responseUrl
  /\ UNCHANGED <<form, activeStep, folderPath, spaceReserved, lgfPassword,
                 retypePassword, error, lgfLoading, responseUrl, setups>>
  /\ UNCHANGED <<shared, fmpVars, efmVars, gwVars>>

\* password !== retypePassword
PasswordsAgree == lgfPassword = retypePassword

\* the form's constraint validation: every input is required and the number
\* input has min="1"; the browser raises no submit event otherwise
FormValid ==
  /\ folderPath # <<>> /\ lgfPassword # "" /\ retypePassword # ""
  /\ ~InvalidSpace(spaceReserved)

\* part_000 handleSubmit up to its await
plainHandleSubmit ==
  /\ PlainForm /\ FormValid
  /\ IF ~PasswordsAgree
     THEN /\ error' = "Passwords do not match"
          /\ UNCHANGED setups
     ELSE /\ SetupsInFlight < MaxSetups
          /\ setups' = setups (+) Copies(SetupRequest(AsEntered(folderPath)), 1)
          /\ UNCHANGED error
  /\ UNCHANGED <<form, activeStep, folderPath, spaceReserved, lgfPassword,
                 retypePassword, lgfLoading, responseUrl, href>>
  /\ UNCHANGED <<shared, fmpVars, efmVars, gwVars>>

\* part_000 handleSubmit after its await: setResponseUrl(data.url), then the
\* redirect to `${data.url}/files`; every throw ends in the catch block
plainSubmitSettled(r, resp) ==
  /\ PlainForm /\ r \in BagToSet(setups)
  /\ resp \in SetupResponses
  /\ setups' = setups (-) Copies(r, 1)
  /\ IF resp.rejected \/ ~resp.ok \/ resp.body.kind \in {"html", "text", "null"}
     THEN /\ error' = "Failed to generate link"
          /\ UNCHANGED <<responseUrl, href>>
     ELSE /\ responseUrl' = resp.body.url
          /\ href' = (IF resp.body.url = <<>> THEN <<"undefined">> ELSE resp.body.url)
                       \o <<Slash, "files">>
          /\ error' = ""
  /\ UNCHANGED <<form, activeStep, folderPath, spaceReserved, lgfPassword,
                 retypePassword, lgfLoading>>
  /\ UNCHANGED <<shared, fmpVars, efmVars, gwVars>>

----------------------------------------------------------------------------
(* The screens as one system: App mounts one of the two on /files *)

OutcomeKinds == {"ok", "notok", "neterr"}

\* the state of a screen when it is mounted (the useState initial values)
Mounted ==
  /\ requests = EmptyBag
  /\ clicks = 0
  /\ password = ""
  /\ authenticated = FALSE
  /\ items = <<>>
  /\ currentPath = <<>>
  /\ breadcrumbs = <<>>
  /\ storage = NoStorage
  /\ message = Msg("")
  /\ loading = FALSE
  /\ selectedItem = NoItem
  /\ previewOpen = FALSE
  /\ batches = [b \in 1..MaxBatches |-> IdleBatch]
  /\ efmPassword = ""
  /\ efmAuthenticated = FALSE
  /\ files = <<>>
  /\ efmCurrentPath = <<>>
  /\ usedStorage = 0
  /\ reservedStorage = 0
  /\ efmMessage = ""

\* the gateway is not part of the run
NoGateway ==
  /\ scenario = "none"
  /\ tasks = <<>>
  /\ usedBytes = 0
  /\ usedAtStart = 0
  /\ store = {}

\* the setup form is not part of the run
NoSetup ==
  /\ form = "none"
  /\ activeStep = 0
  /\ folderPath = <<>>
  /\ spaceReserved = "6"
  /\ lgfPassword = ""
  /\ retypePassword = ""
  /\ error = ""
  /\ lgfLoading = FALSE
  /\ responseUrl = <<>>
  /\ setups = EmptyBag
  /\ href = <<>>

Init ==
  /\ component \in {"FileManagementPage", "EnhancedFileManager"}
  /\ Mounted
  /\ NoGateway
  /\ NoSetup

\* a session of uploads on either screen
Next ==
  \/ \E p \in Passwords : setPassword(p)
  \/ handleLogin
  \/ \E path \in NavTargets : navigateToFolder(path)
  \/ \E r \in InFlight, o \in OutcomeKinds : fetchFilesSettled(r, o)
  \/ onDrop
  \/ handleFileSelect
  \/ \E r \in InFlight, o \in OutcomeKinds : uploadSettled(r, o)
  \/ \E p \in Passwords : efmSetPassword(p)
  \/ efmHandleLogin
  \/ \E name \in FolderNames : handleFolderClick(name)
  \/ \E i \in 0..MaxClicks : navigateBreadcrumb(i)
  \/ \E r \in InFlight, o \in OutcomeKinds : fetchMetadataSettled(r, o)
  \/ \E n \in 1..MaxFiles : efmOnDrop(n)
  \/ \E r \in InFlight, o \in OutcomeKinds : efmUploadSettled(r, o)
  \/ \E name \in FileNames : efmHandleDownload(name)
  \/ \E r \in InFlight, o \in OutcomeKinds : efmDownloadSettled(r, o)

Spec == Init /\ [][Next]_vars

\* every fetch settles: the promise resolves with a response or rejects, and the
\* continuation that awaits it then runs
Settles ==
  /\ WF_vars(\E r \in InFlight, o \in OutcomeKinds : fetchFilesSettled(r, o))
  /\ WF_vars(\E r \in InFlight, o \in OutcomeKinds : uploadSettled(r, o))
  /\ WF_vars(\E r \in InFlight, o \in OutcomeKinds : fetchMetadataSettled(r, o))
  /\ WF_vars(\E r \in InFlight, o \in OutcomeKinds : efmUploadSettled(r, o))
  /\ WF_vars(\E r \in InFlight, o \in OutcomeKinds : efmDownloadSettled(r, o))

SpecSettles == Init /\ [][Next]_vars /\ Settles

\* a session of FileManagementPage spent browsing, previewing and downloading
ViewInit ==
  /\ component = "FileManagementPage"
  /\ Mounted
  /\ NoGateway
  /\ NoSetup

ViewNext ==
  \/ \E p \in Passwords : setPassword(p)
  \/ handleLogin
  \/ \E path \in NavTargets : navigateToFolder(path)
  \/ \E r \in InFlight, o \in OutcomeKinds : fetchFilesSettled(r, o)
  \/ \E item \in ShownFiles \cup {selectedItem} : handleDownload(item)
  \/ \E r \in InFlight, o \in OutcomeKinds : downloadSettled(r, o)
  \/ \E item \in ShownFiles : handlePreview(item)
  \/ closePreview
  \/ \E r \in InFlight, o \in OutcomeKinds : previewSettled(r, o)

SpecView == ViewInit /\ [][ViewNext]_vars

\* a session of either screen spent logging in, browsing and downloading: the
\* share does not change
BrowseInit ==
  /\ component \in {"FileManagementPage", "EnhancedFileManager"}
  /\ Mounted
  /\ NoGateway
  /\ NoSetup

BrowseNext ==
  \/ \E p \in Passwords : setPassword(p)
  \/ handleLogin
  \/ \E path \in NavTargets : navigateToFolder(path)
  \/ \E r \in InFlight, o \in OutcomeKinds : fetchFilesSettled(r, o)
  \/ \E item \in ShownFiles \cup {selectedItem} : handleDownload(item)
  \/ \E r \in InFlight, o \in OutcomeKinds : downloadSettled(r, o)
  \/ \E item \in ShownFiles : handlePreview(item)
  \/ closePreview
  \/ \E r \in InFlight, o \in OutcomeKinds : previewSettled(r, o)
  \/ \E p \in Passwords : efmSetPassword(p)
  \/ efmHandleLogin
  \/ \E name \in FolderNames : handleFolderClick(name)
  \/ \E i \in 0..MaxClicks : navigateBreadcrumb(i)
  \/ \E r \in InFlight, o \in OutcomeKinds : fetchMetadataSettled(r, o)
  \/ \E name \in FileNames : efmHandleDownload(name)
  \/ \E r \in InFlight, o \in OutcomeKinds : efmDownloadSettled(r, o)

SpecBrowse == BrowseInit /\ [][BrowseNext]_vars

\* the useState initial values of the setup form: the wizard starts with
\* C:\temp in the folder field, the plain form with an empty one
SetupMounted ==
  /\ activeStep = 0
  /\ folderPath = (IF form = "part_000" THEN <<>> ELSE <<"C:", Backslash, "temp">>)
  /\ spaceReserved = "6"
  /\ lgfPassword = ""
  /\ retypePassword = ""
  /\ error = ""
  /\ lgfLoading = FALSE
  /\ responseUrl = <<>>
  /\ setups = EmptyBag
  /\ href = <<>>

\* a session of the setup form that App mounts on /
SetupInit ==
  /\ component = "none"
  /\ Mounted
  /\ NoGateway
  /\ form \in {"LinkGeneratorForm.tsx", "part_000"}
  /\ SetupMounted

SetupNext ==
  \/ \E v \in FolderInputs : handleFolderChange(v)
  \/ \E v \in FolderPresets : presetFolder(v)
  \/ \E v \in SpaceInputs : setSpaceReserved(v)
  \/ \E v \in SetupPasswords : lgfSetPassword(v)
  \/ \E v \in SetupPasswords : setRetypePassword(v)
  \/ handleNext
  \/ handleBack
  \/ \E r \in BagToSet(setups), resp \in SetupResponses : handleSubmitSettled(r, resp)
  \/ openLink
  \/ plainHandleSubmit
  \/ \E r \in BagToSet(setups), resp \in SetupResponses : plainSubmitSettled(r, resp)

SpecSetup == SetupInit /\ [][SetupNext]_vars

\* a session of the step wizard alone
WizardInit ==
  /\ component = "none"
  /\ Mounted
  /\ NoGateway
  /\ form = "LinkGeneratorForm.tsx"
  /\ SetupMounted

WizardNext ==
  \/ \E v \in FolderInputs : handleFolderChange(v)
  \/ \E v \in FolderPresets : presetFolder(v)
  \/ \E v \in SpaceInputs : setSpaceReserved(v)
  \/ \E v \in SetupPasswords : lgfSetPassword(v)
  \/ \E v \in SetupPasswords : setRetypePassword(v)
  \/ handleNext
  \/ handleBack
  \/ \E r \in BagToSet(setups), resp \in SetupResponses : handleSubmitSettled(r, resp)
  \/ openLink

SpecWizard == WizardInit /\ [][WizardNext]_vars

----------------------------------------------------------------------------
(* The storage gateway the screens call.  Every request is one task that    *)
(* passes the Credential Gate, then the Path Resolver, then the Directory   *)
(* Lister or the Transfer Orchestrator; tasks run concurrently and share    *)
(* the quota counter and the files.  A path on disk is a sequence of        *)
(* segments.                                                                *)

MaxUploads == 3
MaxPathLen == 3

ReservedBytes == 10

\* declared sizes of the files uploaded at once
Sizes == {3, 4}

Hash(s) == <<"hash", s>>

Root == << <<"srv">>, <<"share">> >>

ShareConfig == [root |-> Root, secret |-> Hash(Secret), reservedBytes |-> ReservedBytes]

\* the directories under the root, and a link in the root that leaves it
Dirs == {Root, Root \o << <<"docs">> >>}

Symlinks == [p \in {Root \o << <<"out">> >>} |-> << <<"etc">> >>]

TempDir == << <<"tmp">> >>

IsPrefix(p, q) == Len(p) <= Len(q) /\ SubSeq(q, 1, Len(p)) = p

\* Credential Gate: the supplied secret against the stored hash
Matches(secret) == Hash(secret) = ShareConfig.secret

\* Path Resolver
Segments(path) == FilterBoolean(Split(path))

\* a resolver that lets ".." segments through to the canonical check
NeverParentReference(seg) == FALSE

ParentReference(seg) == seg = <<"..">>

DrivePrefix(seg) == Len(seg) > 0 /\ seg[1] = "C:"

AbsoluteLooking(path) == Len(path) > 0 /\ path[1] \in {Slash, "C:"}

RECURSIVE Canonical(_, _)
\* resolve links and "." / ".." of the segments segs put after the path acc
Canonical(acc, segs) ==
  IF segs = <<>> THEN acc
  ELSE LET seg  == Head(segs)
           next == IF seg = <<".">> THEN acc
                   ELSE IF seg = <<"..">>
                        THEN (IF acc = <<>> THEN acc ELSE SubSeq(acc, 1, Len(acc) - 1))
                        ELSE acc \o <<seg>>
       IN  Canonical(IF next \in DOMAIN Symlinks THEN Symlinks[next] ELSE next,
                     Tail(segs))

Resolve(path) ==
  LET segs == Segments(path)
      abs  == Canonical(<<>>, ShareConfig.root \o segs)
  IN  IF \/ AbsoluteLooking(path)
         \/ \E k \in DOMAIN segs : ParentReference(segs[k]) \/ DrivePrefix(segs[k])
         \/ ~IsPrefix(Canonical(<<>>, ShareConfig.root), abs)
      THEN [ok |-> FALSE, absolute |-> <<>>]
      ELSE [ok |-> TRUE, absolute |-> abs]

\* Quota Tracker
RECURSIVE SumReserved(_, _)
SumReserved(ts, i) ==
  IF i > Len(ts) THEN 0 ELSE ts[i].reserved + SumReserved(ts, i + 1)

InFlightReservations == SumReserved(tasks, 1)

\* a check that reads usedBytes alone, as an upload that checks before the others reserve
AdmitsIgnoringReservations(nBytes) == usedBytes + nBytes <= ShareConfig.reservedBytes

Admits(nBytes) == usedBytes + InFlightReservations + nBytes <= ShareConfig.reservedBytes

reserve(t) == [t EXCEPT !.reserved = t.size, !.stage = "reserved"]

\* a failure path that keeps the reservation
releaseNothing(t) == t

release(t) == [t EXCEPT !.reserved = 0]

\* Directory Lister: the entries a listing of dir shows
Listing(dir) ==
  {[name |-> e.name, sizeBytes |-> e.bytes] : e \in {x \in store : x.area = "final" /\ x.dir = dir}}

\* a task as it is received
Task(op, secret, path, filename, size) ==
  [op |-> op, secret |-> secret, path |-> path, filename |-> filename, size |-> size,
   stage |-> "received", error |-> "", reserved |-> 0, resolved |-> <<>>,
   log |-> <<>>, result |-> {}]

Fail(t, err) == [t EXCEPT !.stage = "failed", !.error = err]

Logged(t, step) == IF step \in {t.log[k] : k \in DOMAIN t.log} THEN t ELSE [t EXCEPT !.log = t.log \o <<step>>]

ClientsIdle == UNCHANGED <<shared, fmpVars, efmVars, lgfVars, scenario, usedAtStart>>

\* a resolver that runs on requests the gate has not seen
NotYetChecked(t) == t.stage = "received"

Authorized(t) == t.stage = "authorized"

CredentialGate(i) ==
  LET t == Logged(tasks[i], "CredentialGate") IN
  /\ tasks[i].stage = "received"
  /\ tasks' = [tasks EXCEPT ![i] = IF Matches(t.secret)
                                   THEN [t EXCEPT !.stage = "authorized"]
                                   ELSE Fail(t, "AuthError")]
  /\ UNCHANGED <<usedBytes, store>>
  /\ ClientsIdle

PathResolver(i) ==
  LET t   == Logged(tasks[i], "PathResolver")
      res == Resolve(t.path)
  IN
  /\ Authorized(tasks[i])
  /\ tasks' = [tasks EXCEPT ![i] = IF res.ok
                                   THEN [t EXCEPT !.stage = "resolved", !.resolved = res.absolute]
                                   ELSE Fail(t, "PathTraversalError")]
  /\ UNCHANGED <<usedBytes, store>>
  /\ ClientsIdle

DirectoryLister(i) ==
  LET t == Logged(tasks[i], "Filesystem") IN
  /\ tasks[i].op = "list" /\ tasks[i].stage = "resolved"
  /\ tasks' = [tasks EXCEPT ![i] = IF t.resolved \in Dirs
                                   THEN [t EXCEPT !.stage = "done", !.result = Listing(t.resolved)]
                                   ELSE Fail(t, "NotFoundError")]
  /\ UNCHANGED <<usedBytes, store>>
  /\ ClientsIdle

\* the regular files under the root
RegularFiles == {e.dir \o << <<e.name>> >> : e \in {x \in store : x.area = "final"}}

Download(i) ==
  LET t == Logged(tasks[i], "Filesystem") IN
  /\ tasks[i].op \in {"download", "preview"} /\ tasks[i].stage = "resolved"
  /\ tasks' = [tasks EXCEPT ![i] = IF t.resolved \in RegularFiles
                                   THEN [t EXCEPT !.stage = "done"]
                                   ELSE Fail(t, "NotFoundError")]
  /\ UNCHANGED <<usedBytes, store>>
  /\ ClientsIdle

\* Transfer Orchestrator, upload: destination, reservation, temporary file,
\* placement, commit
ValidName(filename) == Len(filename) = 1 /\ filename[1] \notin {Slash, "..", "C:"}

ResolveDestination(i) ==
  LET t == tasks[i] IN
  /\ t.op = "upload" /\ t.stage = "resolved"
  /\ tasks' = [tasks EXCEPT ![i] = IF ValidName(t.filename)
                                   THEN [t EXCEPT !.stage = "named"]
                                   ELSE Fail(t, "PathTraversalError")]
  /\ UNCHANGED <<usedBytes, store>>
  /\ ClientsIdle

\* check and reserve in one critical section
Reserve(i) ==
  LET t == tasks[i] IN
  /\ t.op = "upload" /\ t.stage = "named"
  /\ tasks' = [tasks EXCEPT ![i] = IF Admits(t.size) THEN reserve(t)
                                   ELSE Fail(t, "QuotaExceededError")]
  /\ UNCHANGED <<usedBytes, store>>
  /\ ClientsIdle

\* an upload that writes straight to its final name
StreamAreaFinal(t) == "final"

\* where the bytes of an upload go while they arrive
StreamArea(t) == "temp"

StreamFile(i, t, bytes) ==
  [area |-> StreamArea(t), dir |-> IF StreamArea(t) = "temp" THEN TempDir ELSE t.resolved,
   name |-> t.filename[1], owner |-> i, bytes |-> bytes]

FilesOf(i, area) == {e \in store : e.owner = i /\ e.area = area}

\* the first part of the stream arrives, then the rest
StreamChunk(i) ==
  LET t == Logged(tasks[i], "Filesystem") IN
  /\ t.op = "upload"
  /\ \/ /\ t.stage = "reserved"
        /\ tasks' = [tasks EXCEPT ![i] = [t EXCEPT !.stage = "streaming"]]
        /\ store' = store \cup {StreamFile(i, t, 1)}
     \/ /\ t.stage = "streaming"
        /\ tasks' = [tasks EXCEPT ![i] = [t EXCEPT !.stage = "streamed"]]
        /\ store' = (store \ {StreamFile(i, t, 1)}) \cup {StreamFile(i, t, t.size)}
  /\ UNCHANGED usedBytes
  /\ ClientsIdle

\* the client aborts the connection mid-stream
Cancel(i) ==
  LET t == tasks[i] IN
  /\ t.op = "upload" /\ t.stage = "streaming"
  /\ tasks' = [tasks EXCEPT ![i] = Fail(release(t), "Cancelled")]
  /\ store' = store \ FilesOf(i, "temp")
  /\ UNCHANGED usedBytes
  /\ ClientsIdle

\* the temporary file moves to its final name in one step
Place(i) ==
  LET t == tasks[i] IN
  /\ t.op = "upload" /\ t.stage = "streamed"
  /\ IF t.resolved \in Dirs
     THEN /\ tasks' = [tasks EXCEPT ![i] = [t EXCEPT !.stage = "placed"]]
          /\ store' = (store \ FilesOf(i, "temp"))
                        \cup {[area |-> "final", dir |-> t.resolved, name |-> t.filename[1],
                               owner |-> i, bytes |-> t.size]}
     ELSE /\ tasks' = [tasks EXCEPT ![i] = Fail(release(t), "IOError")]
          /\ store' = store \ FilesOf(i, "temp")
  /\ UNCHANGED usedBytes
  /\ ClientsIdle

\* the reservation becomes a permanent part of usedBytes
Commit(i) ==
  LET t == tasks[i] IN
  /\ t.op = "upload" /\ t.stage = "placed"
  /\ usedBytes' = usedBytes + t.reserved
  /\ tasks' = [tasks EXCEPT ![i] = [release(t) EXCEPT !.stage = "done"]]
  /\ UNCHANGED store
  /\ ClientsIdle

\* the requests the gateway is given
PathTokens == {"docs", "..", Slash, "out", "C:", "r.pdf"}

EtcPasswd == <<"..", Slash, "..", Slash, "etc", Slash, "passwd">>

RequestPaths == UNION {[1..k -> PathTokens] : k \in 0..MaxPathLen} \cup {EtcPasswd}

FilesAtStart(used) ==
  IF used = 0 THEN {}
  ELSE {[area |-> "final", dir |-> Root \o << <<"docs">> >>, name |-> "r.pdf",
         owner |-> 0, bytes |-> used]}

\* one request of any kind, with any path
AnyRequest ==
  /\ scenario = "any request"
  /\ usedAtStart = 2
  /\ \E op \in {"list", "download", "preview"}, secret \in {Secret, "wrong"}, path \in RequestPaths :
       tasks = <<Task(op, secret, path, <<>>, 0)>>

\* one upload, with any target path and file name
AnyUpload ==
  /\ scenario = "any upload"
  /\ usedAtStart = 2
  /\ \E secret \in {Secret, "wrong"}, path \in RequestPaths,
        filename \in {<<"f.bin">>, <<"..", Slash, "f.bin">>}, size \in {3, 9} :
       tasks = <<Task("upload", secret, path, filename, size)>>

\* up to MaxUploads files uploaded to the root at once (EnhancedFileManager's
\* onDrop sends them in parallel) while the folder is listed; the tasks are
\* alike, so their sizes are taken in ascending order
UploadsAtOnce ==
  /\ scenario = "uploads at once"
  /\ usedAtStart \in {0, 2}
  /\ \E n \in 1..MaxUploads : \E sizes \in [1..n -> Sizes] :
       /\ \A k \in 1..(n - 1) : sizes[k] <= sizes[k + 1]
       /\ tasks = [k \in 1..(n + 1) |->
                     IF k <= n THEN Task("upload", Secret, <<>>, <<"f" \o ToString(k)>>, sizes[k])
                     ELSE Task("list", Secret, <<>>, <<>>, 0)]

GatewayInit ==
  /\ component = "none"
  /\ Mounted
  /\ NoSetup
  /\ AnyRequest \/ AnyUpload \/ UploadsAtOnce
  /\ usedBytes = usedAtStart
  /\ store = FilesAtStart(usedAtStart)

GatewayNext ==
  \/ \E i \in DOMAIN tasks : CredentialGate(i)
  \/ \E i \in DOMAIN tasks : PathResolver(i)
  \/ \E i \in DOMAIN tasks : DirectoryLister(i)
  \/ \E i \in DOMAIN tasks : Download(i)
  \/ \E i \in DOMAIN tasks : ResolveDestination(i)
  \/ \E i \in DOMAIN tasks : Reserve(i)
  \/ \E i \in DOMAIN tasks : StreamChunk(i)
  \/ \E i \in DOMAIN tasks : Cancel(i)
  \/ \E i \in DOMAIN tasks : Place(i)
  \/ \E i \in DOMAIN tasks : Commit(i)

SpecGateway == GatewayInit /\ [][GatewayNext]_vars

----------------------------------------------------------------------------
(* Upload batches of FileManagementPage *)

UploadInFlight(b) == \E r \in InFlight : r.endpoint = "upload" /\ r.batch = b

RefreshInFlight(b) == \E r \in InFlight : r.endpoint = "files" /\ r.batch = b

\* C1: in FileManagementPage every file of a batch of N files is attempted
\* exactly once whatever fails: a running batch always has its next upload in
\* flight and has sent no file twice, and a batch that has ended has sent every
\* file once and ends with successCount = N - M and failCount = M, M being the
\* number of uploads that did not get an OK response.
C1_BatchCounts ==
  \A b \in DOMAIN batches :
    LET batch == batches[b] IN
    /\ batch.state = "uploading" =>
         /\ UploadInFlight(b)
         /\ \A i \in 1..batch.n : batch.attempts[i] = (IF i <= batch.idx THEN 1 ELSE 0)
         /\ batch.successCount = batch.okResponses
         /\ batch.failCount = (batch.idx - 1) - batch.okResponses
    /\ batch.state = "done" =>
         /\ \A i \in 1..batch.n : batch.attempts[i] = 1
         /\ batch.successCount = batch.okResponses
         /\ batch.failCount = batch.n - batch.okResponses

\* a batch of two files has ended with one upload failed and one succeeded
C1_Witness ==
  \E b \in DOMAIN batches :
    /\ batches[b].state = "done" /\ batches[b].n = 2
    /\ batches[b].okResponses = 1 /\ batches[b].failCount = 1

\* C4 (as claimed): every request to /api/files, /api/upload, /api/download and
\* /api/preview carries a Basic Authorization header whose user name and
\* password are both the entered secret.
C4_EveryRequestCarriesBasicAuth ==
  \A r \in InFlight :
    r.endpoint \in {"files", "upload", "download", "preview"} =>
      \E pwd \in Passwords \ {""} : r.auth = BasicAuth(pwd)

\* C8 (as claimed): an upload request issued while the screen shows directory P
\* carries path=P; the parameter is absent only at the root.
C8_UploadTargetsCurrentFolder ==
  \A r \in InFlight :
    r.endpoint = "upload" =>
      IF r.hasPath THEN DecodeURIComponent(r.path) = r.browsing
                   ELSE r.browsing = <<>>

\* C9 (as claimed): when the listing refresh that an upload batch started
\* completes, the message states how many files of the batch succeeded and how
\* many failed.
C9_MessageStatesCountsAfterRefresh ==
  [][\A b \in DOMAIN batches :
       (RefreshInFlight(b) /\ ~RefreshInFlight(b)') =>
         message' = UploadedMsg(batches[b].successCount, batches[b].failCount)]_vars

----------------------------------------------------------------------------
(* The screens as state machines: Unauthenticated, Browsing(path), Transferring *)

\* this step settles listing request r (GET /api/files or /api/files/metadata)
ListingSettles(r) ==
  /\ r \in InFlight /\ r.endpoint \in {"files", "metadata"}
  /\ requests' = requests (-) Copies(r, 1)

\* this step settles a listing request that the share can answer with OK
ListingOkSettles == \E r \in InFlight : ListingSettles(r) /\ "ok" \in Outcomes(r)

UploadCount(bag) ==
  LET ups == {r \in BagToSet(bag) : r.endpoint = "upload"}
  IN  BagCardinality([r \in ups |-> bag[r]])

\* a step of an upload: a batch starts, one of its uploads settles, or it ends
TransferStep ==
  batches' # batches \/ UploadCount(requests') # UploadCount(requests)

LeavesUnauthenticatedOnlyOnOkListing ==
  /\ (~authenticated /\ authenticated') => ListingOkSettles
  /\ (~efmAuthenticated /\ efmAuthenticated') => ListingOkSettles

\* C10 (as claimed): each screen leaves Unauthenticated only when a listing
\* request succeeds, never falls back from Browsing or Transferring to
\* Unauthenticated, and a batch started in Browsing(p) ends in Browsing(p).
C10_SingleStateMachine ==
  [][/\ LeavesUnauthenticatedOnlyOnOkListing
     /\ authenticated => authenticated'
     /\ efmAuthenticated => efmAuthenticated'
     /\ TransferStep => (currentPath' = currentPath /\ efmCurrentPath' = efmCurrentPath)
    ]_vars

\* C10 (amended): each screen leaves Unauthenticated only when a listing request
\* succeeds; FileManagementPage never falls back to Unauthenticated, while
\* EnhancedFileManager falls back exactly when a metadata request fails, from
\* Browsing and Transferring alike (a metadata request that settles leaves it
\* authenticated with the listing of the requested path, or unauthenticated with
\* the failure message); no step of an upload changes the current path, and the
\* refresh a FileManagementPage batch ends with asks for the path the batch
\* started in.
C10_Amended ==
  [][/\ LeavesUnauthenticatedOnlyOnOkListing
     /\ authenticated => authenticated'
     /\ (efmAuthenticated /\ ~efmAuthenticated') =>
          \E r \in InFlight : ListingSettles(r) /\ r.endpoint = "metadata"
     /\ \A r \in InFlight :
          (ListingSettles(r) /\ r.endpoint = "metadata") =>
            \/ /\ efmAuthenticated'
               /\ files' = MetadataResponse(DecodeURIComponent(r.path)).files
               /\ efmMessage' = efmMessage
            \/ /\ ~efmAuthenticated'
               /\ efmMessage' = "Failed to fetch files. Check credentials."
               /\ files' = files
     /\ TransferStep => (currentPath' = currentPath /\ efmCurrentPath' = efmCurrentPath)
     /\ \A r \in BagToSet(requests') :
          (r.endpoint = "files" /\ r.batch # 0) =>
            DecodeURIComponent(r.path) = batches'[r.batch].startPath
    ]_vars

\* EnhancedFileManager is back at the login form after it had shown a listing
C10_Witness ==
  /\ EFM /\ ~efmAuthenticated /\ Len(files) > 0
  /\ efmMessage = "Failed to fetch files. Check credentials."

----------------------------------------------------------------------------
(* The storage gateway: quota, paths, order of the checks, visibility *)

Steps(t) == {t.log[k] : k \in DOMAIN t.log}

UploadTasks == {i \in DOMAIN tasks : tasks[i].op = "upload"}

Finished(i) == tasks[i].stage \in {"done", "failed"}

\* C2: the check and the reservation are one atomic step, so usedBytes plus the
\* reservations in flight never exceeds reservedBytes, however many uploads run
\* at once; an upload that holds a reservation was admitted within the quota.
C2_QuotaNeverExceeded ==
  /\ usedBytes + InFlightReservations <= ReservedBytes
  /\ \A i \in UploadTasks :
       /\ tasks[i].reserved \in {0, tasks[i].size}
       /\ tasks[i].reserved > 0 <=> tasks[i].stage \in {"reserved", "streaming", "streamed", "placed"}

\* two uploads hold reservations that leave no room for the third, which failed
C2_Witness ==
  /\ Cardinality({i \in UploadTasks : tasks[i].reserved = 4}) = 2
  /\ \E i \in UploadTasks : tasks[i].size = 4 /\ tasks[i].error = "QuotaExceededError"

\* a ".." segment of the path as the client wrote it
HasParentSegment(path) ==
  \E k \in DOMAIN path :
    /\ path[k] = ".."
    /\ k = 1 \/ path[k - 1] = Slash
    /\ k = Len(path) \/ path[k + 1] = Slash

\* C3: a path with a ".." segment or an absolute-looking prefix is rejected with
\* PathTraversalError before any filesystem access, and no path the resolver
\* accepts resolves outside the root, links included.
C3_TraversalRejected ==
  \A i \in DOMAIN tasks : LET t == tasks[i] IN
    "PathResolver" \in Steps(t) =>
      /\ (HasParentSegment(t.path) \/ AbsoluteLooking(t.path)) =>
           /\ t.stage = "failed" /\ t.error = "PathTraversalError"
           /\ "Filesystem" \notin Steps(t)
      /\ t.resolved = <<>> =>
           /\ t.stage = "failed" /\ t.error = "PathTraversalError"
           /\ "Filesystem" \notin Steps(t)
      /\ t.resolved # <<>> => IsPrefix(Root, t.resolved)

\* the download of ../../etc/passwd with the right secret was rejected
C3_Witness ==
  \E i \in DOMAIN tasks :
    /\ tasks[i].path = EtcPasswd /\ tasks[i].op = "download" /\ tasks[i].secret = Secret
    /\ tasks[i].stage = "failed" /\ tasks[i].error = "PathTraversalError"

\* C5: every request passes the Credential Gate first, then the Path Resolver,
\* and only then reaches the filesystem: a request with a wrong secret or an
\* escaping path never does.
C5_GateThenResolverThenFilesystem ==
  \A i \in DOMAIN tasks : LET t == tasks[i] IN
    /\ t.stage # "received" => (Len(t.log) >= 1 /\ t.log[1] = "CredentialGate")
    /\ "PathResolver" \in Steps(t) =>
         (t.log[1] = "CredentialGate" /\ t.log[2] = "PathResolver" /\ Matches(t.secret))
    /\ "Filesystem" \in Steps(t) =>
         /\ t.log = <<"CredentialGate", "PathResolver", "Filesystem">>
         /\ Matches(t.secret) /\ Resolve(t.path).ok
    /\ t.error = "AuthError" => t.log = <<"CredentialGate">>
    /\ t.stage \in {"done", "streaming", "streamed", "placed"} => "Filesystem" \in Steps(t)

\* a listing went through all three, and a request stopped at the gate
C5_Witness ==
  \E i \in DOMAIN tasks :
    /\ tasks[i].op = "list" /\ tasks[i].stage = "done" /\ scenario = "any request"
    /\ tasks[i].path = <<"docs">>
    /\ tasks[i].log = <<"CredentialGate", "PathResolver", "Filesystem">>

\* the upload that put entry e in place
Uploaded(e) ==
  \E i \in UploadTasks :
    /\ tasks[i].stage \in {"placed", "done"}
    /\ tasks[i].filename = <<e.name>> /\ tasks[i].size = e.sizeBytes

\* C6: an uploaded file shows in a listing only at its final path and only once
\* its whole stream is persisted: every entry a listing shows, or showed to a
\* list request, is a file whose upload has placed all its bytes; a cancelled
\* or failed upload leaves no file behind.
C6_VisibleOnlyWhenComplete ==
  /\ \A dir \in Dirs : \A e \in Listing(dir) :
       e = [name |-> "r.pdf", sizeBytes |-> usedAtStart] \/ Uploaded(e)
  /\ \A i \in DOMAIN tasks :
       (tasks[i].op = "list" /\ tasks[i].stage = "done") =>
          \A e \in tasks[i].result :
            e = [name |-> "r.pdf", sizeBytes |-> usedAtStart] \/ Uploaded(e)
  /\ \A i \in UploadTasks :
       /\ tasks[i].stage \in {"streaming", "streamed"} =>
            (FilesOf(i, "final") = {} /\ FilesOf(i, "temp") # {})
       /\ tasks[i].stage = "failed" => \A e \in store : e.owner # i

\* a listing showed a placed file while another upload had stored only a part
C6_Witness ==
  /\ \E i \in DOMAIN tasks :
       /\ tasks[i].op = "list" /\ tasks[i].stage = "done"
       /\ \E e \in tasks[i].result : e.name = "f1"
  /\ \E j \in UploadTasks : tasks[j].stage = "streaming" /\ \E e \in FilesOf(j, "temp") : e.bytes < tasks[j].size

RECURSIVE SumDone(_, _)
\* the sizes of the uploads that succeeded
SumDone(ts, i) ==
  IF i > Len(ts) THEN 0
  ELSE (IF ts[i].op = "upload" /\ ts[i].stage = "done" THEN ts[i].size ELSE 0)
       + SumDone(ts, i + 1)

\* C7: once every upload has finished, no reservation is left and usedBytes is
\* its value at the start plus the sizes of the uploads that succeeded (three
\* files of 4 into a quota of 10 with nothing used: at most two succeed, and
\* usedBytes ends at 8 when two do).
C7_ReservationsSettle ==
  (\A i \in UploadTasks : Finished(i)) =>
    /\ InFlightReservations = 0
    /\ usedBytes = usedAtStart + SumDone(tasks, 1)
    /\ usedBytes <= ReservedBytes
    /\ (usedAtStart = 0 /\ \A i \in UploadTasks : tasks[i].size = 4) =>
         /\ Cardinality({i \in UploadTasks : tasks[i].stage = "done"}) <= 2
         /\ usedBytes \in {0, 4, 8}

\* three files of 4 into an empty quota of 10: two stored, one over quota, 8 used
C7_Witness ==
  /\ scenario = "uploads at once" /\ usedAtStart = 0
  /\ Cardinality(UploadTasks) = 3
  /\ \A i \in UploadTasks : tasks[i].size = 4 /\ Finished(i)
  /\ Cardinality({i \in UploadTasks : tasks[i].stage = "done"}) = 2
  /\ \E i \in UploadTasks : tasks[i].error = "QuotaExceededError"
  /\ usedBytes = 8

----------------------------------------------------------------------------
(* Listings as the screens show them *)

\* rows (items or file rows, told apart by isDir) follow the ordering policy:
\* no file above a directory, and within each kind names ascend without regard
\* to case ("a.png" above "N.txt")
InPolicyOrder(rows, isDir(_)) ==
  \A i, j \in DOMAIN rows :
    i < j => /\ isDir(rows[i]) \/ ~isDir(rows[j])
             /\ isDir(rows[i]) = isDir(rows[j]) =>
                  Rank(rows[i].name) < Rank(rows[j].name)

\* C11: a listing holds the immediate children of the directory, directories
\* first and then by name without regard to case, and each screen shows the
\* entries it received in the order it received them.
C11_ListingOrderKept ==
  /\ \A dir \in DirPaths :
       /\ {Entries(dir)[i] : i \in DOMAIN Entries(dir)} = Children(dir)
       /\ Len(Entries(dir)) = Cardinality(Children(dir))
       /\ InPolicyOrder(Entries(dir), LAMBDA e : e.is_dir)
  /\ (FMP /\ authenticated) =>
       /\ renderListView = Entries(currentPath)
       /\ renderGridView = Entries(currentPath)
       /\ InPolicyOrder(renderListView, LAMBDA e : e.is_dir)
  /\ (EFM /\ Len(files) > 0) =>
       /\ \E dir \in DirPaths : fileTable = FileMeta(dir)
       /\ InPolicyOrder(fileTable, LAMBDA e : e.isFolder)

\* FileManagementPage shows the root: docs, then a.png above N.txt
C11_Witness ==
  /\ FMP /\ authenticated /\ currentPath = <<>>
  /\ Len(renderListView) = 3
  /\ renderListView[1].name = "docs" /\ renderListView[2].name = "a.png"
  /\ renderListView[3].name = "N.txt"

\* C12: listing is idempotent.  When a screen holds the listing of a path and a
\* second listing of that path arrives with nothing changed on the share, the
\* entries and their order, the current path, the breadcrumbs and the storage
\* figures are what they were.
C12_ListingIdempotent ==
  [][/\ \A r \in InFlight :
          ( /\ fetchFilesSettled(r, "ok")
            /\ authenticated /\ currentPath = DecodeURIComponent(r.path) ) =>
              /\ items' = items /\ currentPath' = currentPath
              /\ breadcrumbs' = breadcrumbs /\ storage' = storage
              /\ renderListView' = renderListView
     /\ \A r \in InFlight :
          ( /\ fetchMetadataSettled(r, "ok")
            /\ efmAuthenticated /\ files = FileMeta(DecodeURIComponent(r.path)) ) =>
              /\ files' = files /\ efmCurrentPath' = efmCurrentPath
              /\ efmBreadcrumbs' = efmBreadcrumbs
              /\ usedStorage' = usedStorage /\ reservedStorage' = reservedStorage
    ]_vars

\* the root was listed at login and once more by a click on Home; both succeeded
C12_Witness ==
  /\ FMP /\ authenticated /\ clicks = 2 /\ requests = EmptyBag
  /\ currentPath = <<>> /\ items = Entries(<<>>)
  /\ message = Msg("") /\ selectedItem = NoItem /\ ~previewOpen

----------------------------------------------------------------------------
(* Failures are final *)

\* the ways a request fails: a non-OK status, or a rejected fetch
Failures == {"notok", "neterr"}

\* the requests of bag after that are not in bag before less request r
Issued(r) == requests' (-) (requests (-) Copies(r, 1))

----------------------------------------------------------------------------
(* Breadcrumbs *)

\* trail is Home followed by the segments of path, root first: its crumbs hold
\* no "/" and are not empty, and joined by "/" they are the path
TrailOf(trail, path) ==
  /\ Len(trail) >= 1 /\ trail[1] = <<"Home">>
  /\ \A i \in 2..Len(trail) :
       trail[i] # <<>> /\ \A k \in DOMAIN trail[i] : trail[i][k] # Slash
  /\ JoinSlash(Tail(trail)) = path

\* C14: the breadcrumbs are a function of the current path.  On both screens
\* the trail shown is, at every moment, Home followed by the segments of the
\* current path; the crumbs FileManagementPage keeps in its state always
\* belong to currentPath, each leading to the prefix of the path that ends
\* with it.
C14_BreadcrumbsFollowPath ==
  /\ FMP => /\ TrailOf(shownBreadcrumbs, currentPath)
            /\ \A i \in DOMAIN breadcrumbs :
                 breadcrumbs[i].path = JoinSlash(SubSeq(Tail(shownBreadcrumbs), 1, i))
  /\ EFM => TrailOf(efmBreadcrumbs, efmCurrentPath)

\* FileManagementPage shows docs/img with the trail Home, docs, img
C14_Witness ==
  /\ FMP /\ authenticated /\ currentPath = <<"docs", Slash, "img">>
  /\ shownBreadcrumbs = << <<"Home">>, <<"docs">>, <<"img">> >>

----------------------------------------------------------------------------
(* Downloads *)

\* the directory whose listing the file table of EnhancedFileManager shows
ShownDir == CHOOSE dir \in DirPaths : files = FileMeta(dir)

\* the requests this step has put in flight
Sent == requests' (-) requests

\* C15: a download of an entry asks for /api/download/<relative path of that
\* entry>, and a download that fails sets the message 'Download failed' and
\* changes nothing else.  (The name the file is saved under and its content
\* type do not enter the state of either screen.)
C15_DownloadAsksForEntry ==
  [][/\ \A item \in ShownFiles \cup {selectedItem} :
          handleDownload(item) =>
            \A q \in BagToSet(Sent) :
              q.endpoint = "download" /\ DecodeURIComponent(q.path) = item.path
     /\ \A name \in FileNames :
          efmHandleDownload(name) =>
            \A q \in BagToSet(Sent) :
              /\ q.endpoint = "download"
              /\ DecodeURIComponent(q.path) = ChildPath(ShownDir, name)
     /\ \A r \in InFlight, o \in Failures :
          /\ downloadSettled(r, o) =>
               /\ message' = Msg("Download failed")
               /\ UNCHANGED <<password, authenticated, items, currentPath, breadcrumbs,
                              storage, loading, selectedItem, previewOpen, batches>>
               /\ requests' = requests (-) Copies(r, 1)
          /\ efmDownloadSettled(r, o) =>
               /\ efmMessage' = "Download failed"
               /\ UNCHANGED <<efmPassword, efmAuthenticated, files, efmCurrentPath,
                              usedStorage, reservedStorage>>
               /\ requests' = requests (-) Copies(r, 1)
    ]_vars

----------------------------------------------------------------------------
(* The preview dialog *)

\* the categories the share serves inline; text and other are for download
InlineCategories == {"image", "pdf", "audio", "video"}

\* C16: opening an entry in the preview dialog asks /api/preview for it exactly
\* when its category is rendered inline (image, pdf, audio, video); for a file of
\* category other (or text) nothing is requested and the dialog offers the
\* download only; the context menu offers Preview for exactly the categories
\* the dialog renders inline.
C16_PreviewOnlyInline ==
  [][/\ \A item \in ShownFiles :
          handlePreview(item) =>
            /\ item.type \in InlineCategories =>
                 Sent = Copies(Request("preview", TRUE, item.path, NoAuth, currentPath,
                                       0, authenticated, <<>>), 1)
            /\ item.type \notin InlineCategories => (Sent = EmptyBag /\ downloadOnly(item))
     /\ \A item \in ShownFiles :
          /\ previewMenuOffered(item) <=> item.type \in InlineCategories
          /\ previewMenuOffered(item) <=> ~downloadOnly(item)
     /\ \A r \in BagToSet(requests') :
          r.endpoint = "preview" =>
            \E d \in DirPaths : \E i \in DOMAIN Entries(d) :
              Entries(d)[i].path = r.path /\ Entries(d)[i].type \in InlineCategories
    ]_vars

\* the dialog is open on z.bin, of category other, and nothing was requested
C16_Witness ==
  /\ FMP /\ previewOpen /\ selectedItem.type = "other"
  /\ requests = EmptyBag

----------------------------------------------------------------------------
(* What EnhancedFileManager shows, and which password the screens hold *)

MetadataInFlight == \E r \in InFlight : r.endpoint = "metadata"

\* C17: in EnhancedFileManager, whenever authenticated is true and no metadata
\* request is in flight, the file table is the listing of currentPath.
C17_TableIsListingOfCurrentPath ==
  (EFM /\ efmAuthenticated /\ ~MetadataInFlight) =>
    files = FileMeta(efmCurrentPath)

\* the password the share accepts is the one the screen holds
HoldsAuthorizedPassword(pwd) == BasicAuth(pwd) = BasicAuth(Secret)

\* C18: whenever a screen is authenticated, the password in its state is the one
\* with which the server authorized the listing request; editing the password
\* field while a login request is in flight cannot break this.
C18_AuthenticatedHoldsAuthorizedPassword ==
  /\ (FMP /\ authenticated) => HoldsAuthorizedPassword(password)
  /\ (EFM /\ efmAuthenticated) => HoldsAuthorizedPassword(efmPassword)

----------------------------------------------------------------------------
(* The loading flag and the upload loop of FileManagementPage *)

ListingInFlight == \E r \in InFlight : r.endpoint = "files"

AnyUploadInFlight == \E r \in InFlight : r.endpoint = "upload"

\* C19: in FileManagementPage, loading is true whenever a listing or upload
\* request is in flight, the refresh started at the end of an upload batch
\* included.
C19_LoadingWhileInFlight ==
  (FMP /\ (ListingInFlight \/ AnyUploadInFlight)) => loading

\* the upload requests of batch b that are in flight
UploadsInFlight(b) ==
  LET ups == {r \in InFlight : r.endpoint = "upload" /\ r.batch = b}
  IN  BagCardinality([r \in ups |-> requests[r]])

\* the uploads of a batch that have settled
Settled(batch) == batch.successCount + batch.failCount

\* C20: within one upload batch of FileManagementPage the files are sent one at
\* a time in the order of the list: at most one upload of the batch is in
\* flight, the files sent are a prefix of the list, and the file in flight is
\* sent only when every file before it has settled.
C20_OneUploadAtATime ==
  \A b \in DOMAIN batches :
    LET batch == batches[b] IN
    /\ UploadsInFlight(b) <= 1
    /\ batch.state # "idle" =>
         \A i \in 1..batch.n : batch.attempts[i] > 0 <=> i <= batch.idx
    /\ UploadsInFlight(b) = 1 =>
         /\ batch.state = "uploading"
         /\ Settled(batch) = batch.idx - 1
    /\ batch.state = "done" => UploadsInFlight(b) = 0 /\ Settled(batch) = batch.n

\* the second file of a batch is in flight after the first has settled
C20_Witness ==
  \E b \in DOMAIN batches :
    /\ batches[b].state = "uploading" /\ batches[b].idx = 2
    /\ Settled(batches[b]) = 1
    /\ UploadsInFlight(b) = 1

----------------------------------------------------------------------------
(* The refresh that ends an upload batch of FileManagementPage *)

\* the listing requests among the requests of a bag
Listings_(bag) == {q \in BagToSet(bag) : q.endpoint = "files"}

\* C21: an upload batch of FileManagementPage issues exactly one listing
\* refresh, for the current path, when its last upload has settled and at least
\* one file succeeded; it issues none before, and none when every file failed,
\* the message being 'Upload failed' then.
C21_OneRefreshForCurrentPath ==
  [][\A r \in InFlight, o \in OutcomeKinds :
       uploadSettled(r, o) =>
         LET b == r.batch
             last == ~MoreFiles(batches[b])
             refreshes == Listings_(Issued(r))
         IN  IF last /\ batches'[b].successCount > 0
             THEN /\ BagCardinality(Issued(r)) = 1
                  /\ \A q \in refreshes : DecodeURIComponent(q.path) = currentPath
                  /\ refreshes # {}
             ELSE /\ refreshes = {}
                  /\ last => message' = Msg("Upload failed")]_vars

----------------------------------------------------------------------------
(* What FileManagementPage holds of a listing *)

\* the four fields are those of the listing response of one directory
FromOneResponse ==
  \E dir \in DirPaths :
    LET data == FilesResponse(dir)
    IN  /\ items = data.items
        /\ currentPath = data.current_path
        /\ breadcrumbs = data.breadcrumbs
        /\ storage = data.storage

\* nothing has been listed yet
NothingListed ==
  items = <<>> /\ currentPath = <<>> /\ breadcrumbs = <<>> /\ storage = NoStorage

\* C22: in FileManagementPage items, currentPath, breadcrumbs and storage are
\* always those of one and the same successful listing response (or the initial
\* values while nothing has been listed), and a failed listing request leaves
\* the four and authenticated unchanged: it changes only message and loading.
C22_ListingFieldsGoTogether ==
  [][/\ FMP => (IF authenticated' THEN FromOneResponse' ELSE NothingListed')
     /\ \A r \in InFlight, o \in Failures :
          fetchFilesSettled(r, o) =>
            /\ UNCHANGED <<items, currentPath, breadcrumbs, storage, authenticated>>
            /\ UNCHANGED <<component, clicks, password, selectedItem, previewOpen,
                           batches, efmVars, gwVars, lgfVars>>
            /\ loading' = FALSE]_vars

\* a listing has failed while the screen shows the folder docs, which it keeps
C22_Witness ==
  /\ FMP /\ authenticated /\ ~ListingInFlight
  /\ message = Msg("Failed to load files. Please check your connection.")
  /\ currentPath = <<"docs">> /\ items = FilesResponse(<<"docs">>).items

----------------------------------------------------------------------------
(* When EnhancedFileManager shows the login form *)

\* C23: in EnhancedFileManager authenticated is true exactly when the metadata
\* request that completed last succeeded: only the completion of a metadata
\* request changes it, a success sets it, and any failure (of a login, of a
\* subfolder listing, of the refresh after an upload) clears it while
\* currentPath and files keep their values.
C23_AuthenticatedIsLastMetadataOutcome ==
  [][/\ \A r \in InFlight, o \in OutcomeKinds :
          fetchMetadataSettled(r, o) =>
            /\ efmAuthenticated' = (o = "ok")
            /\ o \in Failures => UNCHANGED <<files, efmCurrentPath>>
     /\ efmAuthenticated' # efmAuthenticated =>
          \E r \in InFlight, o \in OutcomeKinds : fetchMetadataSettled(r, o)]_vars

\* the listing of a subfolder has failed: the login form is shown while
\* currentPath is still docs and the table still holds the root
C23_Witness ==
  /\ EFM /\ ~efmAuthenticated /\ ~MetadataInFlight
  /\ efmCurrentPath = <<"docs">> /\ files = FileMeta(<<>>)

----------------------------------------------------------------------------
(* The loading flag of FileManagementPage comes down *)

\* C24: in FileManagementPage loading is false once every request that a login
\* attempt, a navigation or an upload batch started has settled, with success
\* or failure, and loading never stays true forever.
C24_LoadingEnds ==
  /\ []((FMP /\ ~ListingInFlight /\ ~AnyUploadInFlight) => ~loading)
  /\ (FMP /\ loading) ~> ~loading

\* a batch whose every upload failed has ended and loading is false
C24_Witness ==
  /\ FMP /\ ~loading /\ requests = EmptyBag
  /\ message = Msg("Upload failed")
  /\ \E b \in DOMAIN batches : batches[b].state = "done" /\ batches[b].failCount = batches[b].n

----------------------------------------------------------------------------
(* The setup form: what is sent to /api/setup, and when *)

\* the requests to /api/setup this step has put in flight
SetupsSent == setups' (-) setups

\* this step is a click on Generate Link, or a submit of the plain form
SubmitAttempt == (handleNext /\ activeStep = 2) \/ plainHandleSubmit

\* C25: a request to /api/setup is sent only when the password equals the
\* retyped password and, in the step wizard, the password is non-empty and the
\* folder is an absolute path; a submission that sends no request sets an
\* error message.
C25_SetupSentOnlyWhenValid ==
  [][/\ SetupsSent # EmptyBag =>
          /\ SubmitAttempt
          /\ lgfPassword = retypePassword
          /\ form = "LinkGeneratorForm.tsx" =>
               lgfPassword # "" /\ AbsolutePath(folderPath)
     /\ (SubmitAttempt /\ SetupsSent = EmptyBag) => error' # ""]_vars

\* the wizard has refused a folder that is not an absolute path
C25_Witness ==
  /\ form = "LinkGeneratorForm.tsx" /\ activeStep = 2
  /\ ~AbsolutePath(folderPath) /\ lgfPassword # "" /\ lgfPassword = retypePassword
  /\ error = "Please enter a valid absolute path (e.g., C:\\Folder or /home/user/folder)"
  /\ setups = EmptyBag /\ ~lgfLoading

\* C26: the folder the server obtains by JSON-decoding the body of a request
\* to /api/setup is the folder path the user entered, for every path, Windows
\* paths with backslashes included.
C26_ServerGetsFolderEntered ==
  [][\A q \in BagToSet(SetupsSent) : JSONParse(q.folder) = folderPath]_vars

----------------------------------------------------------------------------
(* The steps of the setup wizard *)

\* the response is an OK status with a JSON body that holds a url
ReadyResponse(resp) ==
  /\ ~resp.rejected /\ resp.ok
  /\ resp.body.kind = "json" /\ resp.body.url # <<>>

\* C27: the setup wizard reaches step 3 only when /api/setup has answered with
\* an OK status and a JSON body with a non-empty url, and the link it then
\* shows is that url followed by /files; on any failed or malformed response
\* activeStep stays at 2 and an error is set.
C27_ReadyOnlyAfterOkWithUrl ==
  [][/\ (form = "LinkGeneratorForm.tsx" /\ activeStep' = 3 /\ activeStep # 3) =>
          \E r \in BagToSet(setups), resp \in SetupResponses :
            /\ handleSubmitSettled(r, resp)
            /\ ReadyResponse(resp)
            /\ responseUrl' = resp.body.url \o <<Slash, "files">>
     /\ \A r \in BagToSet(setups), resp \in SetupResponses :
          (handleSubmitSettled(r, resp) /\ ~ReadyResponse(resp)) =>
            /\ activeStep = 2 /\ activeStep' = 2
            /\ error' # ""
            /\ UNCHANGED responseUrl]_vars

\* the wizard shows 'Your Drive is Ready!' with the link of the share
C27_Witness ==
  /\ form = "LinkGeneratorForm.tsx" /\ activeStep = 3
  /\ responseUrl = PublicUrl \o <<Slash, "files">>
  /\ href = <<>>

\* the wizard holds what the steps behind activeStep asked for
StepsBehindValid ==
  /\ activeStep >= 1 => folderPath # <<>>
  /\ activeStep >= 2 => (spaceReserved # "" /\ NumberOf(spaceReserved) > 0)

\* the validation of the current step fails
StepInvalid ==
  \/ activeStep = 0 /\ folderPath = <<>>
  \/ activeStep = 1 /\ (spaceReserved = "" \/ NumberOf(spaceReserved) <= 0)
  \/ activeStep = 2 /\ (lgfPassword = "" \/ lgfPassword # retypePassword)

\* C28: in the setup wizard, after any sequence of Next, Back and field edits,
\* activeStep >= 1 implies that folderPath is non-empty and activeStep >= 2
\* that spaceReserved parses to a number greater than 0; a Next whose step
\* validation fails leaves activeStep unchanged and sets the error message.
C28_StepsKeepTheirValidation ==
  [][/\ form = "LinkGeneratorForm.tsx" => StepsBehindValid'
     /\ (handleNext /\ StepInvalid) => (activeStep' = activeStep /\ error' # "")]_vars

\* Next has been refused on the first step because the folder is empty
C28_Witness ==
  /\ form = "LinkGeneratorForm.tsx" /\ activeStep = 0
  /\ folderPath = <<>> /\ error = "Please enter a folder path"

\* this step is the continuation of a submission whose request has settled
SubmissionSettles ==
  \E r \in BagToSet(setups), resp \in SetupResponses : handleSubmitSettled(r, resp)

\* C29: in the setup wizard at most one request to /api/setup is in flight.
\* While a submission is pending loading is true, no step is a Next, a Generate
\* Link or a Back, and activeStep does not change until the request settles;
\* loading is false again once it has settled, with success or failure.
C29_OneSubmissionAtATime ==
  [][form = "LinkGeneratorForm.tsx" =>
       /\ SetupsInFlight' <= 1
       /\ lgfLoading' <=> SetupsInFlight' = 1
       /\ SetupsInFlight = 1 =>
            /\ ~handleNext /\ ~handleBack
            /\ activeStep' # activeStep => SubmissionSettles
       /\ SubmissionSettles => ~lgfLoading']_vars

\* a submission is pending and the password fields have been edited meanwhile
C29_Witness ==
  /\ form = "LinkGeneratorForm.tsx" /\ activeStep = 2
  /\ SetupsInFlight = 1 /\ lgfLoading
  /\ lgfPassword # retypePassword

----------------------------------------------------------------------------
(* The current path of EnhancedFileManager *)

\* the folder names a path is made of, root first
SegmentsOf(path) == FilterBoolean(Split(path))

\* path is folder names joined by "/", with no "/" before or after
WellFormedPath(path) ==
  /\ path = JoinSlash(SegmentsOf(path))
  /\ \A i \in DOMAIN SegmentsOf(path) :
       Len(SegmentsOf(path)[i]) = 1 /\ SegmentsOf(path)[i][1] # Slash
  /\ path # <<>> => (path[1] # Slash /\ path[Len(path)] # Slash)

\* C30: in EnhancedFileManager currentPath is always a '/'-joined list of
\* folder names with no leading or trailing '/'.  Entering a folder appends
\* exactly one segment, clicking breadcrumb i sets currentPath to its first i
\* segments (i = 0 gives the root), and the breadcrumb of the previous depth
\* takes the path reached by entering a folder back to the path before.
C30_PathIsJoinedFolderNames ==
  [][EFM =>
       /\ WellFormedPath(efmCurrentPath')
       /\ \A name \in FolderNames :
            handleFolderClick(name) =>
              /\ SegmentsOf(efmCurrentPath') = Append(SegmentsOf(efmCurrentPath), <<name>>)
              /\ BreadcrumbTarget(efmCurrentPath', Len(SegmentsOf(efmCurrentPath)))
                   = efmCurrentPath
       /\ \A i \in 0..MaxClicks :
            navigateBreadcrumb(i) =>
              /\ SegmentsOf(efmCurrentPath') = SubSeq(SegmentsOf(efmCurrentPath), 1, i)
              /\ i = 0 => efmCurrentPath' = <<>>]_vars

\* two folders have been entered, the second from inside the first
C30_Witness ==
  /\ EFM /\ efmAuthenticated
  /\ efmCurrentPath = <<"docs", Slash, "img">>
  /\ SegmentsOf(efmCurrentPath) = << <<"docs">>, <<"img">> >>

====
